---------------------------- MODULE Spec2Model ----------------------------
(***************************************************************************)
(* A model of the video clipper front end: the App component (views,       *)
(* videos, clips), the ClipEditor component (draft title, range, text      *)
(* overlays), the DraftsManager component (folders) and the remote record  *)
(* store they talk to (tables videos, folders, clips).                     *)
(*                                                                         *)
(* Times are whole seconds.  Server-assigned identifiers are 1, 2, ...     *)
(* in order of insertion; NoId stands for null.  Strings that the code     *)
(* trims are sequences of characters.                                      *)
(***************************************************************************)
EXTENDS Integers, Sequences, FiniteSets

(***************************************************************************)
(* Bounds of the model.                                                    *)
(***************************************************************************)
MaxVideos == 2       \* videos inserted in one run
MaxClips == 1        \* clips inserted in one run
MaxInFlight == 1     \* gateway calls in flight at once
MaxOverlays == 2     \* overlays in the draft at once
MaxClock == 1        \* last reading of the millisecond clock
MaxFolders == 1      \* folders inserted in one run
MaxDeletes == 2      \* deletions of clips in flight at once
MaxLoads == 2        \* selects of loadFolders in flight at once
MaxProbes == 1       \* <video> elements awaiting their metadata at once
MaxSeconds == 125      \* the longest time formatted

\* The clip titles and the folder names typed: sequences of characters.
Titles == {<<>>, <<" ">>, <<"a">>}
Names == {<<>>, <<" ">>, <<"a">>}
\* The times offered by the sliders and typed into the number inputs.
TimeSamples == {-5, 0, 30}
\* The times the range checks are applied to on their own.
RangeSamples == {-5, 0, 10, 30, 40}
\* The durations of the videos added (0: unknown, a YouTube link).
Durations == {0, 10, 40}

(***************************************************************************)
(* Program constants.                                                      *)
(***************************************************************************)
NoId == 0            \* null
DefaultEnd == 30     \* Math.min(30, videoDuration)

Min(a, b) == IF a <= b THEN a ELSE b
Max(a, b) == IF a >= b THEN a ELSE b

(***************************************************************************)
(* String.prototype.trim: drops the leading and the trailing blanks.       *)
(***************************************************************************)
RECURSIVE TrimStart(_)
TrimStart(s) ==
  IF s = <<>> THEN s
  ELSE IF Head(s) = " " THEN TrimStart(Tail(s)) ELSE s

RECURSIVE TrimEnd(_)
TrimEnd(s) ==
  IF s = <<>> THEN s
  ELSE IF s[Len(s)] = " " THEN TrimEnd(SubSeq(s, 1, Len(s) - 1)) ELSE s

Trim(s) == TrimEnd(TrimStart(s))

(***************************************************************************)
(* The value of a number input: what parseFloat makes of the text typed,   *)
(* a number or NaN.                                                        *)
(***************************************************************************)
NaN == [nan |-> TRUE, val |-> 0]
Num(v) == [nan |-> FALSE, val |-> v]
NumberInputs == {NaN} \cup {Num(v) : v \in TimeSamples}
RangeNumberInputs == {NaN} \cup {Num(v) : v \in RangeSamples}

\* parseFloat(e.target.value) || 0 : NaN and 0 are falsy.
OrZero(n) == IF n.nan \/ n.val = 0 THEN 0 ELSE n.val

(***************************************************************************)
(* ClipEditor: the two checks of handleCreateClip and the clamps of the    *)
(* number inputs.                                                          *)
(***************************************************************************)
TitleBlankNoTrim(title) == title = <<>>
\* !clipTitle.trim()
TitleBlank(title) == Trim(title) = <<>>

\* the range is accepted unless startTime >= endTime
RangeCheck(start, end) == ~(start >= end)

\* Math.max(0, parseFloat(e.target.value) || 0)
ClampStart(input) == Max(0, OrZero(input))

\* Math.min(videoDuration, parseFloat(e.target.value) || 0)
ClampEnd(input, videoDuration) == Min(videoDuration, OrZero(input))

\* useState(Math.min(30, videoDuration))
InitialEnd(videoDuration) == Min(DefaultEnd, videoDuration)

(***************************************************************************)
(* State.                                                                  *)
(***************************************************************************)
VARIABLES
  \* App
  currentView,      \* "upload" | "editor" | "drafts"
  videos,           \* the in-memory list of videos
  clips,            \* the in-memory list of clips
  selectedVideo,    \* a video, or NoVideo for null
  currentTime,
  showPlayer,
  \* VideoUpload (mounted while the view is the upload view)
  isProcessing,
  probes,           \* the <video> elements handleFileUpload made, metadata awaited
  \* ClipEditor (mounted while the view is the editor and a video is selected)
  clipTitle,
  startTime,
  endTime,
  textOverlays,
  aspectRatio,
  subtitleEnabled,  \* the Enable Subtitles checkbox
  subtitleFont,
  subtitleDesign,
  \* DraftsManager
  folders,          \* the in-memory list of folders
  newFolderName,
  isCreatingFolder,
  editingFolderId,
  editingFolderName,
  selectedClips,    \* the ids of the clips ticked, in the order ticked
  expandedFolders,  \* the ids of the folders unfolded
  \* the record store
  dbVideos,         \* table videos
  dbClips,          \* table clips
  dbFolders,        \* table folders
  videoSeq,         \* rows ever inserted into videos
  clipSeq,          \* rows ever inserted into clips
  folderSeq,        \* rows ever inserted into folders
  \* gateway calls in flight, each with what its handler closed over
  inflight,
  \* the millisecond clock read by Date.now()
  now,
  \* the arguments and the result of the range checks applied on their own
  rangeIn,
  rangeOut,
  \* history: the last step taken (the inputs that only set a field are all
  \* "input", the steps of the store "gateway", the answers "response" unless
  \* a property reads more of them), what the last handler that was asked
  \* for a result returned, and the overlay ids removed while this editor
  \* was mounted
  op,
  returned,
  removedIds

appVars == <<currentView, videos, clips, selectedVideo, currentTime, showPlayer>>
subtitleVars == <<subtitleEnabled, subtitleFont, subtitleDesign>>
styleVars == <<aspectRatio, subtitleVars>>
editorVars == <<clipTitle, startTime, endTime, textOverlays, styleVars>>
draftsVars ==
  <<folders, newFolderName, isCreatingFolder, editingFolderId, editingFolderName,
    selectedClips, expandedFolders>>
dbVars == <<dbVideos, dbClips, dbFolders, videoSeq, clipSeq, folderSeq>>
rangeVars == <<rangeIn, rangeOut>>
uploadVars == <<isProcessing, probes>>
histVars == <<returned, removedIds>>
vars == <<appVars, editorVars, draftsVars, dbVars, inflight, now, rangeVars, uploadVars, op, histVars>>

NoVideo == [id |-> NoId, duration |-> 0]

\* useState('16:9'), useState('Arial'), useState('default'), and two of the
\* options of each select.
DefaultAspectRatio == "16:9"
ASPECT_RATIOS == {"16:9", "9:16"}
DefaultFont == "Arial"
DefaultDesign == "default"
SUBTITLE_FONTS == {"Arial", "Georgia"}
SUBTITLE_DESIGNS == {"default", "bold"}

\* The elements of a sequence.
Range(s) == {s[i] : i \in DOMAIN s}
Ids(s) == [i \in DOMAIN s |-> s[i].id]

(***************************************************************************)
(* Gateway calls.  A call is sent, then executed by the store (which       *)
(* commits it or fails), then its response runs the rest of the handler    *)
(* that awaited it.                                                        *)
(***************************************************************************)
\* A call number no call in flight carries: mutations, deletions of clips and
\* the load of a mounting component are counted apart.
FreeRid ==
  CHOOSE r \in 1..(MaxInFlight + MaxDeletes + MaxLoads + 1) :
    \A q \in inflight : q.rid # r
\* The selects of loadFolders in flight: they are counted apart from the
\* calls a handler sends, so that a reload can still be unanswered when the
\* next call is sent.
LoadsInFlight == {q \in inflight : q.kind = "selectFolders"}
CanSend == Cardinality(inflight \ LoadsInFlight) < MaxInFlight
Pending(kind) == {q \in inflight : q.kind = kind /\ q.stage = "sent"}
\* The user acts only when every call has been answered.
Idle == inflight = {}
\* After the step the calls in flight, the selects of loadFolders among
\* them, are within the limit: a handler sends only when its call fits.
WithinLimit == Cardinality(inflight') <= MaxInFlight

(***************************************************************************)
(* App renders ClipEditor only while currentView === 'editor' &&           *)
(* selectedVideo: the editor's state starts afresh each time it is         *)
(* mounted and is kept while it stays mounted, whatever video is passed.   *)
(***************************************************************************)
Mounted(view, video) == view = "editor" /\ video.id # NoId

EditorInitial(videoDuration) ==
  /\ clipTitle' = <<>>
  /\ startTime' = 0
  /\ endTime' = InitialEnd(videoDuration)
  /\ textOverlays' = <<>>
  /\ aspectRatio' = DefaultAspectRatio
  /\ subtitleEnabled' = TRUE
  /\ subtitleFont' = DefaultFont
  /\ subtitleDesign' = DefaultDesign
  /\ returned' = "none"
  /\ removedIds' = {}

EditorGone ==
  /\ clipTitle' = <<>>
  /\ startTime' = 0
  /\ endTime' = 0
  /\ textOverlays' = <<>>
  /\ aspectRatio' = DefaultAspectRatio
  /\ subtitleEnabled' = TRUE
  /\ subtitleFont' = DefaultFont
  /\ subtitleDesign' = DefaultDesign
  /\ returned' = "none"
  /\ removedIds' = {}

\* VideoUpload is rendered while the view is the upload view; its state is
\* kept from one render to the next and starts as isProcessing = false.
\* The <video> elements made by a VideoUpload that is gone stay, and their
\* onloadedmetadata then sets the state of a component no longer mounted.
UploadRender(view) ==
  IF view = "upload" /\ currentView = "upload"
  THEN UNCHANGED <<isProcessing, probes>>
  ELSE /\ isProcessing' = FALSE
       /\ probes' = {[p EXCEPT !.live = FALSE] : p \in probes}

EditorRender(view, video) ==
  IF Mounted(view, video)
  THEN IF Mounted(currentView, selectedVideo)
       THEN UNCHANGED <<editorVars, histVars>>
       ELSE EditorInitial(video.duration)
  ELSE EditorGone

(***************************************************************************)
(* ClipEditor: the title and the range inputs.                             *)
(***************************************************************************)
EditorShown == Mounted(currentView, selectedVideo)
videoDuration == selectedVideo.duration

\* <input type="range" min="0" max={videoDuration}>: the browser keeps the
\* value between min and max, and at min when max is below it.
SliderValues == {t \in TimeSamples : 0 <= t /\ t <= Max(0, videoDuration)}

SetClipTitle(title) ==
  /\ EditorShown
  /\ clipTitle' = title
  /\ op' = <<"input">>
  /\ UNCHANGED <<appVars, startTime, endTime, textOverlays, styleVars,
                 draftsVars, dbVars, inflight, now, rangeVars, uploadVars, histVars>>

StartSlider(value) ==
  /\ EditorShown
  /\ startTime' = value
  /\ op' = <<"input">>
  /\ UNCHANGED <<appVars, clipTitle, endTime, textOverlays, styleVars,
                 draftsVars, dbVars, inflight, now, rangeVars, uploadVars, histVars>>

StartNumber(input) ==
  /\ EditorShown
  /\ startTime' = ClampStart(input)
  /\ op' = <<"input">>
  /\ UNCHANGED <<appVars, clipTitle, endTime, textOverlays, styleVars,
                 draftsVars, dbVars, inflight, now, rangeVars, uploadVars, histVars>>

EndSlider(value) ==
  /\ EditorShown
  /\ endTime' = value
  /\ op' = <<"input">>
  /\ UNCHANGED <<appVars, clipTitle, startTime, textOverlays, styleVars,
                 draftsVars, dbVars, inflight, now, rangeVars, uploadVars, histVars>>

EndNumber(input) ==
  /\ EditorShown
  /\ endTime' = ClampEnd(input, videoDuration)
  /\ op' = <<"input">>
  /\ UNCHANGED <<appVars, clipTitle, startTime, textOverlays, styleVars,
                 draftsVars, dbVars, inflight, now, rangeVars, uploadVars, histVars>>

(***************************************************************************)
(* ClipEditor: the text overlays.                                          *)
(***************************************************************************)
OverlayIds == 0..MaxClock

\* The fields an input of the overlay list passes to handleUpdateTextOverlay.
OverlayUpdates == {[text |-> "Hi"], [x |-> 10, y |-> 20]}

NewOverlay(clock) ==
  [id |-> clock, text |-> "New Text", x |-> 50, y |-> 50, fontSize |-> 24,
   color |-> "#ffffff"]

AddOverlayFirst(overlays, clock) == <<NewOverlay(clock)>> \o overlays
\* [...textOverlays, { id: `overlay-${Date.now()}`, ... }]
AddOverlay(overlays, clock) == Append(overlays, NewOverlay(clock))

\* { ...overlay, ...updates }
Merge(overlay, updates) ==
  [f \in DOMAIN overlay |-> IF f \in DOMAIN updates THEN updates[f] ELSE overlay[f]]

UpdateOverlayAll(overlays, id, updates) ==
  [i \in DOMAIN overlays |-> Merge(overlays[i], updates)]
\* textOverlays.map(overlay => overlay.id === id ? {...overlay, ...updates} : overlay)
UpdateOverlay(overlays, id, updates) ==
  [i \in DOMAIN overlays |->
     IF overlays[i].id = id THEN Merge(overlays[i], updates) ELSE overlays[i]]

RemoveOverlayKeepOnly(overlays, id) ==
  LET Hit(overlay) == overlay.id = id IN SelectSeq(overlays, Hit)
\* textOverlays.filter(overlay => overlay.id !== id)
RemoveOverlay(overlays, id) ==
  LET Keep(overlay) == overlay.id # id IN SelectSeq(overlays, Keep)

HasOverlay(overlays, id) == \E i \in DOMAIN overlays : overlays[i].id = id

handleAddTextOverlay ==
  /\ EditorShown
  /\ Len(textOverlays) < MaxOverlays
  /\ textOverlays' = AddOverlay(textOverlays, now)
  /\ op' = <<"addOverlay", now>>
  /\ UNCHANGED <<appVars, clipTitle, startTime, endTime, styleVars,
                 draftsVars, dbVars, inflight, now, rangeVars, uploadVars, histVars>>

handleUpdateTextOverlay(id, updates) ==
  /\ EditorShown
  /\ textOverlays' = UpdateOverlay(textOverlays, id, updates)
  /\ op' = <<"updateOverlay", id, HasOverlay(textOverlays, id), updates>>
  /\ returned' = "undefined"
  /\ UNCHANGED <<appVars, clipTitle, startTime, endTime, styleVars,
                 draftsVars, dbVars, inflight, now, rangeVars, uploadVars, removedIds>>

handleRemoveTextOverlay(id) ==
  /\ EditorShown
  /\ textOverlays' = RemoveOverlay(textOverlays, id)
  /\ op' = <<"removeOverlay", id, HasOverlay(textOverlays, id)>>
  /\ returned' = "undefined"
  /\ removedIds' = IF HasOverlay(textOverlays, id) THEN removedIds \cup {id}
                   ELSE removedIds
  /\ UNCHANGED <<appVars, clipTitle, startTime, endTime, styleVars,
                 draftsVars, dbVars, inflight, now, rangeVars, uploadVars>>

\* A millisecond passes.
Tick ==
  /\ now < MaxClock
  /\ now' = now + 1
  /\ op' = <<"tick">>
  /\ UNCHANGED <<appVars, editorVars, draftsVars, dbVars, inflight, rangeVars, uploadVars,
                 histVars>>

(***************************************************************************)
(* ClipEditor: the aspect ratio and the subtitle controls.  The checkbox   *)
(* sets the flag alone; the font and design selects are rendered only      *)
(* while the flag is set.                                                  *)
(***************************************************************************)
SetAspectRatio(value) ==
  /\ EditorShown
  /\ aspectRatio' = value
  /\ op' = <<"input">>
  /\ UNCHANGED <<appVars, clipTitle, startTime, endTime, textOverlays,
                 subtitleVars, draftsVars, dbVars, inflight, now, rangeVars, uploadVars,
                 histVars>>

SetSubtitleEnabledResetting(checked) ==
  /\ EditorShown
  /\ subtitleEnabled' = checked
  /\ subtitleFont' = IF checked THEN subtitleFont ELSE DefaultFont
  /\ subtitleDesign' = IF checked THEN subtitleDesign ELSE DefaultDesign
  /\ op' = <<"setSubtitleEnabled", checked>>
  /\ UNCHANGED <<appVars, clipTitle, startTime, endTime, textOverlays, aspectRatio,
                 draftsVars, dbVars, inflight, now, rangeVars, uploadVars, histVars>>

SetSubtitleEnabled(checked) ==
  /\ EditorShown
  /\ subtitleEnabled' = checked
  /\ op' = <<"setSubtitleEnabled", checked>>
  /\ UNCHANGED <<appVars, clipTitle, startTime, endTime, textOverlays, aspectRatio,
                 subtitleFont, subtitleDesign, draftsVars, dbVars, inflight,
                 now, rangeVars, uploadVars, histVars>>

SetSubtitleFont(font) ==
  /\ EditorShown
  /\ subtitleEnabled
  /\ subtitleFont' = font
  /\ op' = <<"input">>
  /\ UNCHANGED <<appVars, clipTitle, startTime, endTime, textOverlays, aspectRatio,
                 subtitleEnabled, subtitleDesign, draftsVars, dbVars, inflight,
                 now, rangeVars, uploadVars, histVars>>

SetSubtitleDesign(design) ==
  /\ EditorShown
  /\ subtitleEnabled
  /\ subtitleDesign' = design
  /\ op' = <<"input">>
  /\ UNCHANGED <<appVars, clipTitle, startTime, endTime, textOverlays, aspectRatio,
                 subtitleEnabled, subtitleFont, draftsVars, dbVars, inflight,
                 now, rangeVars, uploadVars, histVars>>

(***************************************************************************)
(* Creating a clip: ClipEditor's handleCreateClip checks the draft, hands  *)
(* it to App's handleCreateClip (which sends the insert and awaits it) and *)
(* resets the draft.                                                       *)
(***************************************************************************)
SubtitleSettings == [font |-> subtitleFont, design |-> subtitleDesign]

ClipRowOfFirstVideo ==
  [video_id |-> videos[Len(videos)].id, title |-> clipTitle,
   start_time |-> startTime, end_time |-> endTime, aspect_ratio |-> aspectRatio,
   subtitle_enabled |-> subtitleEnabled, subtitle_settings |-> SubtitleSettings,
   text_overlays |-> textOverlays]

ClipRow ==
  [video_id |-> selectedVideo.id, title |-> clipTitle, start_time |-> startTime,
   end_time |-> endTime, aspect_ratio |-> aspectRatio,
   subtitle_enabled |-> subtitleEnabled,
   subtitle_settings |-> SubtitleSettings, text_overlays |-> textOverlays]

InsertClipCall ==
  [rid |-> FreeRid, kind |-> "insertClip", stage |-> "sent", row |-> ClipRow,
   capClips |-> clips, data |-> <<>>]

handleCreateClipKeepingDraft ==
  /\ EditorShown
  /\ op' = <<"createClip">>
  /\ IF TitleBlank(clipTitle) \/ ~RangeCheck(startTime, endTime)
     THEN UNCHANGED inflight
     ELSE /\ CanSend
          /\ clipSeq + Cardinality(Pending("insertClip")) < MaxClips
          /\ inflight' = inflight \cup {InsertClipCall}
  /\ UNCHANGED <<appVars, editorVars, draftsVars, dbVars, now, rangeVars, uploadVars, histVars>>

handleCreateClip ==
  /\ EditorShown
  /\ op' = <<"createClip">>
  /\ IF TitleBlank(clipTitle)
     THEN UNCHANGED <<editorVars, inflight>>
     ELSE IF ~RangeCheck(startTime, endTime)
     THEN UNCHANGED <<editorVars, inflight>>
     ELSE /\ IF selectedVideo.id = NoId
             THEN UNCHANGED inflight
             ELSE /\ CanSend
                  /\ clipSeq + Cardinality(Pending("insertClip")) < MaxClips
                  /\ inflight' = inflight \cup {InsertClipCall}
          /\ clipTitle' = <<>>
          /\ startTime' = 0
          /\ endTime' = InitialEnd(videoDuration)
          /\ textOverlays' = <<>>
          /\ UNCHANGED styleVars
  /\ UNCHANGED <<appVars, draftsVars, dbVars, now, rangeVars, uploadVars, histVars>>

\* The store inserts the row: it assigns the id; folder_id defaults to null.
GatewayInsertClip(q) ==
  /\ q \in Pending("insertClip")
  /\ LET row == [id |-> clipSeq + 1, video_id |-> q.row.video_id, folder_id |-> NoId,
                 title |-> q.row.title, start_time |-> q.row.start_time,
                 end_time |-> q.row.end_time,
                 aspect_ratio |-> q.row.aspect_ratio,
                 subtitle_enabled |-> q.row.subtitle_enabled,
                 subtitle_settings |-> q.row.subtitle_settings,
                 text_overlays |-> q.row.text_overlays]
     IN  /\ \E v \in dbVideos : v.id = row.video_id
         /\ clipSeq' = clipSeq + 1
         /\ dbClips' = dbClips \cup {row}
         /\ inflight' = (inflight \ {q}) \cup {[q EXCEPT !.stage = "ok", !.data = row]}
  /\ op' = <<"gateway">>
  /\ UNCHANGED <<appVars, editorVars, draftsVars, dbVideos, dbFolders, videoSeq,
                 folderSeq, now, rangeVars, uploadVars, histVars>>

\* Any call may fail (transport or storage): nothing is committed.
GatewayFail(q) ==
  /\ q \in inflight
  /\ q.stage = "sent"
  /\ inflight' = (inflight \ {q}) \cup {[q EXCEPT !.stage = "err"]}
  /\ op' = <<"gateway">>
  /\ UNCHANGED <<appVars, editorVars, draftsVars, dbVars, now, rangeVars, uploadVars, histVars>>

\* App.handleCreateClip after the await.
ResponseInsertClip(q) ==
  /\ q \in inflight
  /\ q.kind = "insertClip"
  /\ q.stage \in {"ok", "err"}
  /\ inflight' = inflight \ {q}
  /\ clips' = IF q.stage = "ok" THEN <<q.data>> \o q.capClips ELSE clips
  /\ op' = IF q.stage = "err" THEN <<"failed", q.kind>> ELSE <<"response">>
  /\ UNCHANGED <<currentView, videos, selectedVideo, currentTime, showPlayer,
                 editorVars, draftsVars, dbVars, now, rangeVars, uploadVars, histVars>>

(***************************************************************************)
(* App: adding a video, selecting one, the navigation buttons.             *)
(***************************************************************************)
\* supabase.from('videos').insert({...}).select().single(), and the videos
\* the handler closed over.
InsertVideoCall(rid, duration, capVideos) ==
  [rid |-> rid, kind |-> "insertVideo", stage |-> "sent", duration |-> duration,
   capVideos |-> capVideos, data |-> <<>>]

handleVideoAdded(duration) ==
  /\ currentView = "upload"
  /\ CanSend
  /\ videoSeq + Cardinality(Pending("insertVideo")) < MaxVideos
  /\ inflight' = inflight \cup {InsertVideoCall(FreeRid, duration, videos)}
  /\ op' = <<"videoAdded">>
  /\ UNCHANGED <<appVars, editorVars, draftsVars, dbVars, now, rangeVars, uploadVars, histVars>>

GatewayInsertVideo(q) ==
  /\ q \in Pending("insertVideo")
  /\ LET row == [id |-> videoSeq + 1, duration |-> q.duration]
     IN  /\ videoSeq' = videoSeq + 1
         /\ dbVideos' = dbVideos \cup {row}
         /\ inflight' = (inflight \ {q}) \cup {[q EXCEPT !.stage = "ok", !.data = row]}
  /\ op' = <<"gateway">>
  /\ UNCHANGED <<appVars, editorVars, draftsVars, dbClips, dbFolders, clipSeq,
                 folderSeq, now, rangeVars, uploadVars, histVars>>

\* App.handleVideoAdded after the await.
ResponseInsertVideo(q) ==
  /\ q \in inflight
  /\ q.kind = "insertVideo"
  /\ q.stage \in {"ok", "err"}
  /\ inflight' = inflight \ {q}
  /\ op' = <<"response">>
  /\ IF q.stage = "ok"
     THEN /\ videos' = <<q.data>> \o q.capVideos
          /\ selectedVideo' = q.data
          /\ currentView' = "editor"
          /\ showPlayer' = TRUE
          /\ EditorRender("editor", q.data)
          /\ UploadRender("editor")
     ELSE UNCHANGED <<videos, selectedVideo, currentView, showPlayer, editorVars,
                      histVars, uploadVars>>
  /\ UNCHANGED <<clips, currentTime, draftsVars, dbVars, now, rangeVars>>

(***************************************************************************)
(* VideoUpload: the file input.  handleFileUpload makes a <video> element  *)
(* on the file chosen and waits for its loadedmetadata event; the browser  *)
(* fires that event when it can read the file as a video, and an error     *)
(* event, which nothing listens to, when it cannot.                        *)
(***************************************************************************)
NoFile == [decodable |-> FALSE, duration |-> -1]
Files == {NoFile, [decodable |-> TRUE, duration |-> 20], [decodable |-> FALSE, duration |-> 0]}

Loading == {p \in probes : p.file.decodable}

handleFileUpload(file) ==
  /\ currentView = "upload"
  /\ ~isProcessing
  /\ IF file = NoFile
     THEN UNCHANGED <<isProcessing, probes>>
     ELSE /\ Cardinality(probes) < MaxProbes
          /\ Cardinality(inflight \ LoadsInFlight) + Cardinality(Loading) < MaxInFlight
          /\ videoSeq + Cardinality(Pending("insertVideo")) + Cardinality(Loading)
               < MaxVideos
          /\ isProcessing' = TRUE
          /\ probes' = probes \cup {[file |-> file, live |-> TRUE, capVideos |-> videos]}
  /\ op' = <<"fileUpload", file>>
  /\ UNCHANGED <<appVars, editorVars, draftsVars, dbVars, inflight, now, rangeVars,
                 histVars>>

\* video.onloadedmetadata: onVideoAdded runs App.handleVideoAdded up to its
\* await, then setIsProcessing(false).
LoadedMetadata(p) ==
  /\ p \in Loading
  /\ probes' = probes \ {p}
  /\ inflight' = inflight \cup {InsertVideoCall(FreeRid, p.file.duration, p.capVideos)}
  /\ isProcessing' = IF p.live THEN FALSE ELSE isProcessing
  /\ op' = <<"loadedMetadata">>
  /\ UNCHANGED <<appVars, editorVars, draftsVars, dbVars, now, rangeVars, histVars>>

\* The error event of the element: handleFileUpload set no onerror.
MediaError(p) ==
  /\ p \in probes \ Loading
  /\ probes' = probes \ {p}
  /\ op' = <<"mediaError">>
  /\ UNCHANGED <<appVars, editorVars, draftsVars, dbVars, inflight, now, rangeVars,
                 histVars, isProcessing>>

handleSelectVideo(video) ==
  /\ currentView = "upload"
  /\ video \in Range(videos)
  /\ selectedVideo' = video
  /\ currentView' = "editor"
  /\ showPlayer' = TRUE
  /\ EditorRender("editor", video)
  /\ UploadRender("editor")
  /\ op' = <<"selectVideo">>
  /\ UNCHANGED <<videos, clips, currentTime, draftsVars, dbVars, inflight, now,
                 rangeVars>>

NavUpload ==
  /\ currentView' = "upload"
  /\ EditorRender("upload", selectedVideo)
  /\ UploadRender("upload")
  /\ op' = <<"navUpload">>
  /\ UNCHANGED <<videos, clips, selectedVideo, currentTime, showPlayer, draftsVars,
                 dbVars, inflight, now, rangeVars>>

\* The Editor button without its check of selectedVideo.
NavEditorUnchecked ==
  /\ currentView' = "editor"
  /\ EditorRender("editor", selectedVideo)
  /\ UploadRender("editor")
  /\ op' = <<"navEditor">>
  /\ UNCHANGED <<videos, clips, selectedVideo, currentTime, showPlayer, draftsVars,
                 dbVars, inflight, now, rangeVars>>

NavEditor ==
  /\ IF selectedVideo.id = NoId
     THEN UNCHANGED <<currentView, editorVars, histVars, uploadVars>>
     ELSE /\ currentView' = "editor"
          /\ EditorRender("editor", selectedVideo)
          /\ UploadRender("editor")
  /\ op' = <<"navEditor">>
  /\ UNCHANGED <<videos, clips, selectedVideo, currentTime, showPlayer, draftsVars,
                 dbVars, inflight, now, rangeVars>>

\* VideoPlayer onClose, and the Show Video Player button.
ClosePlayer ==
  /\ Mounted(currentView, selectedVideo)
  /\ showPlayer
  /\ showPlayer' = FALSE
  /\ op' = <<"closePlayer">>
  /\ UNCHANGED <<currentView, videos, clips, selectedVideo, currentTime, editorVars,
                 draftsVars, dbVars, inflight, now, rangeVars, uploadVars, histVars>>

OpenPlayer ==
  /\ Mounted(currentView, selectedVideo)
  /\ ~showPlayer
  /\ showPlayer' = TRUE
  /\ op' = <<"openPlayer">>
  /\ UNCHANGED <<currentView, videos, clips, selectedVideo, currentTime, editorVars,
                 draftsVars, dbVars, inflight, now, rangeVars, uploadVars, histVars>>

\* clips.find(c => c.id === clipId), videos.find(v => v.id === clip.video_id)
FindClip(clipId) == SelectSeq(clips, LAMBDA c : c.id = clipId)
FindVideo(videoId) == SelectSeq(videos, LAMBDA v : v.id = videoId)

\* handleClipSelect going to the editor also when the clip's video is not
\* found.
handleClipSelectUnchecked(clipId) ==
  /\ currentView = "drafts"
  /\ IF FindClip(clipId) = <<>>
     THEN UNCHANGED <<currentView, selectedVideo, currentTime, showPlayer,
                      editorVars, histVars>>
     ELSE LET clip == Head(FindClip(clipId))
              video == IF FindVideo(clip.video_id) = <<>> THEN selectedVideo
                       ELSE Head(FindVideo(clip.video_id))
          IN  /\ selectedVideo' = video
              /\ currentTime' = clip.start_time
              /\ currentView' = "editor"
              /\ showPlayer' = TRUE
              /\ EditorRender("editor", video)
  /\ op' = <<"clipSelect", clipId>>
  /\ UNCHANGED <<videos, clips, draftsVars, dbVars, inflight, now, rangeVars, uploadVars>>

\* App.handleClipSelect, called by a click on a clip of the drafts view.
handleClipSelect(clipId) ==
  /\ currentView = "drafts"
  /\ IF FindClip(clipId) = <<>>
     THEN UNCHANGED <<currentView, selectedVideo, currentTime, showPlayer,
                      editorVars, histVars>>
     ELSE LET clip == Head(FindClip(clipId))
          IN  IF FindVideo(clip.video_id) = <<>>
              THEN UNCHANGED <<currentView, selectedVideo, currentTime, showPlayer,
                               editorVars, histVars>>
              ELSE LET video == Head(FindVideo(clip.video_id))
                   IN  /\ selectedVideo' = video
                       /\ currentTime' = clip.start_time
                       /\ currentView' = "editor"
                       /\ showPlayer' = TRUE
                       /\ EditorRender("editor", video)
  /\ op' = <<"clipSelect", clipId>>
  /\ UNCHANGED <<videos, clips, draftsVars, dbVars, inflight, now, rangeVars, uploadVars>>

(***************************************************************************)
(* DraftsManager: the folders.  createFolder, updateFolder and             *)
(* deleteFolder send one call each, and after it succeeds call             *)
(* loadFolders, which sends a select and replaces the list when it         *)
(* answers.                                                                *)
(***************************************************************************)
DraftsShown == currentView = "drafts"

NameBlankNoTrim(name) == name = <<>>
\* !newFolderName.trim(), !editingFolderName.trim()
NameBlank(name) == Trim(name) = <<>>

LoadFoldersCall(rid) ==
  [rid |-> rid, kind |-> "selectFolders", stage |-> "sent", data |-> <<>>]

\* The Drafts button: DraftsManager is mounted, its state starts afresh and
\* its effect calls loadFolders; ClipEditor is unmounted.
NavDraftsKeepingState ==
  /\ currentView # "drafts"
  /\ \A q \in inflight : q.kind # "selectFolders"
  /\ currentView' = "drafts"
  /\ EditorRender("drafts", selectedVideo)
  /\ UploadRender("drafts")
  /\ folders' = <<>>
  /\ newFolderName' = <<>>
  /\ isCreatingFolder' = FALSE
  /\ editingFolderId' = NoId
  /\ editingFolderName' = <<>>
  /\ inflight' = inflight \cup {LoadFoldersCall(FreeRid)}
  /\ op' = <<"navDrafts", selectedClips, expandedFolders>>
  /\ UNCHANGED <<videos, clips, selectedVideo, currentTime, showPlayer,
                 selectedClips, expandedFolders, dbVars,
                 now, rangeVars>>

NavDrafts ==
  /\ currentView # "drafts"
  /\ \A q \in inflight : q.kind # "selectFolders"
  /\ currentView' = "drafts"
  /\ EditorRender("drafts", selectedVideo)
  /\ UploadRender("drafts")
  /\ folders' = <<>>
  /\ newFolderName' = <<>>
  /\ isCreatingFolder' = FALSE
  /\ editingFolderId' = NoId
  /\ editingFolderName' = <<>>
  /\ selectedClips' = <<>>
  /\ expandedFolders' = {}
  /\ inflight' = inflight \cup {LoadFoldersCall(FreeRid)}
  /\ op' = <<"navDrafts", selectedClips, expandedFolders>>
  /\ UNCHANGED <<videos, clips, selectedVideo, currentTime, showPlayer, dbVars,
                 now, rangeVars>>

ClickNewFolder ==
  /\ DraftsShown
  /\ isCreatingFolder' = TRUE
  /\ op' = <<"input">>
  /\ UNCHANGED <<appVars, editorVars, folders, newFolderName,
                 editingFolderId, editingFolderName, selectedClips,
                 expandedFolders, dbVars, inflight, now, rangeVars, uploadVars, histVars>>

SetNewFolderName(name) ==
  /\ DraftsShown
  /\ isCreatingFolder
  /\ newFolderName' = name
  /\ op' = <<"input">>
  /\ UNCHANGED <<appVars, editorVars, folders, isCreatingFolder,
                 editingFolderId, editingFolderName, selectedClips,
                 expandedFolders, dbVars, inflight, now, rangeVars, uploadVars, histVars>>

CancelNewFolder ==
  /\ DraftsShown
  /\ isCreatingFolder
  /\ isCreatingFolder' = FALSE
  /\ newFolderName' = <<>>
  /\ op' = <<"input">>
  /\ UNCHANGED <<appVars, editorVars, folders, editingFolderId,
                 editingFolderName, selectedClips, expandedFolders, dbVars,
                 inflight, now, rangeVars, uploadVars, histVars>>

createFolder ==
  /\ DraftsShown
  /\ isCreatingFolder
  /\ op' = <<"createFolder">>
  /\ IF NameBlank(newFolderName)
     THEN UNCHANGED inflight
     ELSE /\ CanSend
          /\ folderSeq + Cardinality(Pending("insertFolder")) < MaxFolders
          /\ inflight' = inflight \cup
               {[rid |-> FreeRid, kind |-> "insertFolder", stage |-> "sent",
                 name |-> newFolderName]}
  /\ UNCHANGED <<appVars, editorVars, draftsVars, dbVars, now, rangeVars, uploadVars, histVars>>

\* The pencil button of a folder that is not being renamed.
StartEditFolder(folder) ==
  /\ DraftsShown
  /\ folder \in Range(folders)
  /\ editingFolderId # folder.id
  /\ editingFolderId' = folder.id
  /\ editingFolderName' = folder.name
  /\ op' = <<"input">>
  /\ UNCHANGED <<appVars, editorVars, folders, newFolderName,
                 isCreatingFolder, selectedClips, expandedFolders, dbVars,
                 inflight, now, rangeVars, uploadVars, histVars>>

EditingShown == \E folder \in Range(folders) : folder.id = editingFolderId

SetEditingFolderName(name) ==
  /\ DraftsShown
  /\ EditingShown
  /\ editingFolderName' = name
  /\ op' = <<"input">>
  /\ UNCHANGED <<appVars, editorVars, folders, newFolderName,
                 isCreatingFolder, editingFolderId, selectedClips,
                 expandedFolders, dbVars, inflight, now, rangeVars, uploadVars, histVars>>

CancelEditFolder ==
  /\ DraftsShown
  /\ EditingShown
  /\ editingFolderId' = NoId
  /\ editingFolderName' = <<>>
  /\ op' = <<"input">>
  /\ UNCHANGED <<appVars, editorVars, folders, newFolderName,
                 isCreatingFolder, selectedClips, expandedFolders, dbVars,
                 inflight, now, rangeVars, uploadVars, histVars>>

\* The check button of the folder being renamed.
updateFolder(folderId) ==
  /\ DraftsShown
  /\ EditingShown
  /\ folderId = editingFolderId
  /\ op' = <<"updateFolder", folderId>>
  /\ IF NameBlank(editingFolderName)
     THEN UNCHANGED inflight
     ELSE /\ CanSend
          /\ inflight' = inflight \cup
               {[rid |-> FreeRid, kind |-> "updateFolder", stage |-> "sent",
                 id |-> folderId, name |-> editingFolderName]}
  /\ UNCHANGED <<appVars, editorVars, draftsVars, dbVars, now, rangeVars, uploadVars, histVars>>

\* The bin button of a folder that is not being renamed; confirmed is the
\* answer to confirm().
deleteFolder(folderId, confirmed) ==
  /\ DraftsShown
  /\ \E folder \in Range(folders) : folder.id = folderId
  /\ editingFolderId # folderId
  /\ op' = <<"deleteFolder", folderId>>
  /\ IF ~confirmed
     THEN UNCHANGED inflight
     ELSE /\ CanSend
          /\ inflight' = inflight \cup
               {[rid |-> FreeRid, kind |-> "deleteFolder", stage |-> "sent",
                 id |-> folderId]}
  /\ UNCHANGED <<appVars, editorVars, draftsVars, dbVars, now, rangeVars, uploadVars, histVars>>

\* No element of the page calls it.
moveClipsToFolder(clipIds, folderId) ==
  /\ DraftsShown
  /\ CanSend
  /\ inflight' = inflight \cup
       {[rid |-> FreeRid, kind |-> "updateClips", stage |-> "sent",
         ids |-> clipIds, folder_id |-> folderId]}
  /\ op' = <<"moveClipsToFolder", clipIds, folderId>>
  /\ UNCHANGED <<appVars, editorVars, draftsVars, dbVars, now, rangeVars, uploadVars, histVars>>

(***************************************************************************)
(* The record store: tables folders and clips.                             *)
(***************************************************************************)
\* .order('created_at', { ascending: false })
\* The orders a select may answer in: rows of one created_at come in any
\* order, the statement naming no second key.
NewestFirstOrders(rows) ==
  {s \in [1..Cardinality(rows) -> rows] :
     /\ \A i, j \in DOMAIN s : i # j => s[i] # s[j]
     /\ \A i, j \in DOMAIN s : i < j => s[i].created_at >= s[j].created_at}

ClipsCascadeOnFolderDelete(rows, folderId) == {c \in rows : c.folder_id # folderId}
\* clips.folder_id uuid REFERENCES folders(id) ON DELETE SET NULL
ClipsOnFolderDelete(rows, folderId) ==
  {IF c.folder_id = folderId THEN [c EXCEPT !.folder_id = NoId] ELSE c : c \in rows}

\* Clips as the first load listed them: newest first, which is highest id first.
RECURSIVE NewestFirstById(_)
NewestFirstById(rows) ==
  IF rows = {} THEN <<>>
  ELSE LET newest == CHOOSE r \in rows : \A o \in rows : o.id <= r.id
       IN  <<newest>> \o NewestFirstById(rows \ {newest})

GatewayInsertFolder(q) ==
  /\ q \in Pending("insertFolder")
  /\ folderSeq' = folderSeq + 1
  /\ dbFolders' = dbFolders \cup
       {[id |-> folderSeq + 1, name |-> q.name, created_at |-> folderSeq + 1]}
  /\ inflight' = (inflight \ {q}) \cup {[q EXCEPT !.stage = "ok"]}
  /\ op' = <<"gateway">>
  /\ UNCHANGED <<appVars, editorVars, draftsVars, dbVideos, dbClips, videoSeq,
                 clipSeq, now, rangeVars, uploadVars, histVars>>

GatewayUpdateFolder(q) ==
  /\ q \in Pending("updateFolder")
  /\ dbFolders' = {IF f.id = q.id THEN [f EXCEPT !.name = q.name] ELSE f : f \in dbFolders}
  /\ inflight' = (inflight \ {q}) \cup {[q EXCEPT !.stage = "ok"]}
  /\ op' = <<"gateway">>
  /\ UNCHANGED <<appVars, editorVars, draftsVars, dbVideos, dbClips, videoSeq,
                 clipSeq, folderSeq, now, rangeVars, uploadVars, histVars>>

GatewayDeleteFolder(q) ==
  /\ q \in Pending("deleteFolder")
  /\ dbFolders' = {f \in dbFolders : f.id # q.id}
  /\ dbClips' = ClipsOnFolderDelete(dbClips, q.id)
  /\ inflight' = (inflight \ {q}) \cup {[q EXCEPT !.stage = "ok"]}
  /\ op' = <<"gatewayDeleteFolder", q.id, {c.id : c \in {r \in dbClips : r.folder_id = q.id}}>>
  /\ UNCHANGED <<appVars, editorVars, draftsVars, dbVideos, videoSeq, clipSeq,
                 folderSeq, now, rangeVars, uploadVars, histVars>>

GatewaySelectFolders(q) ==
  /\ q \in Pending("selectFolders")
  /\ \E data \in NewestFirstOrders(dbFolders) :
       inflight' = (inflight \ {q}) \cup {[q EXCEPT !.stage = "ok", !.data = data]}
  /\ op' = <<"gateway">>
  /\ UNCHANGED <<appVars, editorVars, draftsVars, dbVars, now, rangeVars, uploadVars, histVars>>

\* update({ folder_id }).in('id', clipIds): the statement fails as a whole
\* when a row would reference a folder that does not exist.  The history
\* keeps the ids named and the folders the rows hit were in.
GatewayUpdateClipsViaUnassigned(q) ==
  /\ q \in Pending("updateClips")
  /\ LET hit == {c \in dbClips : c.id \in q.ids}
         filed == {c \in hit : c.folder_id # NoId}
     IN  /\ IF filed # {} /\ q.folder_id # NoId
            THEN /\ UNCHANGED inflight
                 /\ dbClips' = {IF c \in hit THEN [c EXCEPT !.folder_id = NoId]
                                ELSE c : c \in dbClips}
            ELSE /\ inflight' = (inflight \ {q}) \cup {[q EXCEPT !.stage = "ok"]}
                 /\ dbClips' = {IF c \in hit THEN [c EXCEPT !.folder_id = q.folder_id]
                                ELSE c : c \in dbClips}
         /\ op' = <<"gatewayUpdateClips", q.ids, {c.folder_id : c \in hit}>>
  /\ UNCHANGED <<appVars, editorVars, draftsVars, dbVideos, dbFolders, videoSeq,
                 clipSeq, folderSeq, now, rangeVars, uploadVars, histVars>>

GatewayUpdateClips(q) ==
  /\ q \in Pending("updateClips")
  /\ LET hit == {c \in dbClips : c.id \in q.ids}
         dangling == /\ q.folder_id # NoId
                     /\ \A f \in dbFolders : f.id # q.folder_id
     IN  /\ IF hit # {} /\ dangling
            THEN /\ inflight' = (inflight \ {q}) \cup {[q EXCEPT !.stage = "err"]}
                 /\ UNCHANGED dbClips
            ELSE /\ inflight' = (inflight \ {q}) \cup {[q EXCEPT !.stage = "ok"]}
                 /\ dbClips' = {IF c \in hit THEN [c EXCEPT !.folder_id = q.folder_id]
                                ELSE c : c \in dbClips}
         /\ op' = <<"gatewayUpdateClips", q.ids, {c.folder_id : c \in hit}>>
  /\ UNCHANGED <<appVars, editorVars, draftsVars, dbVideos, dbFolders, videoSeq,
                 clipSeq, folderSeq, now, rangeVars, uploadVars, histVars>>

(***************************************************************************)
(* DraftsManager: the handlers after their await.                          *)
(***************************************************************************)
Answered(kind) == {q \in inflight : q.kind = kind /\ q.stage \in {"ok", "err"}}

\* What the history keeps of an answer: of a failed call, its kind.
ResponseOp(q) == IF q.stage = "err" THEN <<"failed", q.kind>> ELSE <<"response">>

\* The call answered is done; on success loadFolders() sends its select.
ThenLoadFolders(q) ==
  IF q.stage = "ok"
  THEN /\ Cardinality(LoadsInFlight) < MaxLoads
       /\ inflight' = (inflight \ {q}) \cup {LoadFoldersCall(q.rid)}
  ELSE inflight' = inflight \ {q}

ResponseInsertFolder(q) ==
  /\ q \in Answered("insertFolder")
  /\ ThenLoadFolders(q)
  /\ newFolderName' = IF q.stage = "ok" THEN <<>> ELSE newFolderName
  /\ isCreatingFolder' = IF q.stage = "ok" THEN FALSE ELSE isCreatingFolder
  /\ op' = ResponseOp(q)
  /\ UNCHANGED <<appVars, editorVars, folders, editingFolderId,
                 editingFolderName, selectedClips, expandedFolders, dbVars,
                 now, rangeVars, uploadVars, histVars>>

ResponseUpdateFolder(q) ==
  /\ q \in Answered("updateFolder")
  /\ ThenLoadFolders(q)
  /\ editingFolderId' = IF q.stage = "ok" THEN NoId ELSE editingFolderId
  /\ editingFolderName' = IF q.stage = "ok" THEN <<>> ELSE editingFolderName
  /\ op' = ResponseOp(q)
  /\ UNCHANGED <<appVars, editorVars, folders, newFolderName,
                 isCreatingFolder, selectedClips, expandedFolders, dbVars,
                 now, rangeVars, uploadVars, histVars>>

ResponseDeleteFolder(q) ==
  /\ q \in Answered("deleteFolder")
  /\ ThenLoadFolders(q)
  /\ op' = ResponseOp(q)
  /\ UNCHANGED <<appVars, editorVars, draftsVars, dbVars, now, rangeVars, uploadVars, histVars>>

\* loadFolders after the await.
ResponseSelectFolders(q) ==
  /\ q \in Answered("selectFolders")
  /\ inflight' = inflight \ {q}
  /\ folders' = IF q.stage = "ok" THEN q.data ELSE folders
  /\ op' = <<"response">>
  /\ UNCHANGED <<appVars, editorVars, newFolderName, isCreatingFolder,
                 editingFolderId, editingFolderName, selectedClips,
                 expandedFolders, dbVars, now, rangeVars, uploadVars, histVars>>

\* moveClipsToFolder after the await: an error is logged, nothing else.
\* The promise resolves to undefined either way.
ResponseUpdateClips(q) ==
  /\ q \in Answered("updateClips")
  /\ inflight' = inflight \ {q}
  /\ returned' = "undefined"
  /\ op' = <<"responseUpdateClips", q.stage, q.ids, q.folder_id>>
  /\ UNCHANGED <<appVars, editorVars, draftsVars, dbVars, now, rangeVars, uploadVars,
                 removedIds>>

(***************************************************************************)
(* DraftsManager: the selection, and App.handleDeleteClips, which the      *)
(* Delete Selected button calls with the selection.                        *)
(***************************************************************************)
ToggleSelectionAppending(prev, clipId) == Append(prev, clipId)
ToggleSelectionAddOnly(prev, clipId) ==
  IF clipId \in Range(prev) THEN prev ELSE Append(prev, clipId)
\* prev.includes(clipId) ? prev.filter(id => id !== clipId) : [...prev, clipId]
ToggleSelection(prev, clipId) ==
  IF clipId \in Range(prev)
  THEN SelectSeq(prev, LAMBDA id : id # clipId)
  ELSE Append(prev, clipId)

\* clips.filter(clip => !clip.folder_id)
unorganizedClips == SelectSeq(clips, LAMBDA clip : clip.folder_id = NoId)
\* clips.filter(clip => clip.folder_id === folder.id)
folderClips(folder) == SelectSeq(clips, LAMBDA clip : clip.folder_id = folder.id)

\* The checkbox of a clip that is listed: unorganized, or in a folder of the
\* list (taken as expanded).  The history keeps the selection the toggle
\* started from.
\* The clips of a folder are rendered only while the folder is unfolded.
Listed(clip) ==
  \/ clip \in Range(unorganizedClips)
  \/ \E folder \in Range(folders) :
       folder.id \in expandedFolders /\ clip \in Range(folderClips(folder))

ToggleExpansion(prev, folderId) ==
  IF folderId \in prev THEN prev \ {folderId} ELSE prev \cup {folderId}

toggleFolderExpansion(folderId) ==
  /\ DraftsShown
  /\ \E folder \in Range(folders) : folder.id = folderId
  /\ expandedFolders' = ToggleExpansion(expandedFolders, folderId)
  /\ op' = <<"toggleExpand", folderId>>
  /\ UNCHANGED <<appVars, editorVars, folders, newFolderName,
                 isCreatingFolder, editingFolderId, editingFolderName,
                 selectedClips, dbVars, inflight, now, rangeVars, uploadVars, histVars>>

toggleClipSelection(clipId) ==
  /\ DraftsShown
  /\ \E clip \in Range(clips) : clip.id = clipId /\ Listed(clip)
  /\ selectedClips' = ToggleSelection(selectedClips, clipId)
  /\ op' = <<"toggleSelect", clipId, selectedClips>>
  /\ UNCHANGED <<appVars, editorVars, folders, newFolderName,
                 isCreatingFolder, editingFolderId, editingFolderName,
                 expandedFolders, dbVars, inflight, now, rangeVars, uploadVars, histVars>>

\* The Clear button of the selection bar.
ClearSelectionAndFold ==
  /\ DraftsShown
  /\ selectedClips # <<>>
  /\ selectedClips' = <<>>
  /\ expandedFolders' = {}
  /\ op' = <<"clearSelection">>
  /\ UNCHANGED <<appVars, editorVars, folders, newFolderName,
                 isCreatingFolder, editingFolderId, editingFolderName, dbVars,
                 inflight, now, rangeVars, uploadVars, histVars>>

ClearSelection ==
  /\ DraftsShown
  /\ selectedClips # <<>>
  /\ selectedClips' = <<>>
  /\ op' = <<"clearSelection">>
  /\ UNCHANGED <<appVars, editorVars, folders, newFolderName,
                 isCreatingFolder, editingFolderId, editingFolderName,
                 expandedFolders, dbVars, inflight, now, rangeVars, uploadVars, histVars>>

DeletesInFlight == {q \in inflight : q.kind = "deleteClips"}

\* Delete Selected; confirmed is the answer to confirm().
handleDeleteClips(confirmed) ==
  /\ DraftsShown
  /\ selectedClips # <<>>
  /\ op' = <<"deleteClips", Range(selectedClips)>>
  /\ IF ~confirmed
     THEN UNCHANGED inflight
     ELSE /\ Cardinality(DeletesInFlight) < MaxDeletes
          /\ inflight' = inflight \cup
               {[rid |-> FreeRid, kind |-> "deleteClips", stage |-> "sent",
                 ids |-> Range(selectedClips), capClips |-> clips,
                 deleted |-> {}]}
  /\ UNCHANGED <<appVars, editorVars, draftsVars, dbVars, now, rangeVars, uploadVars, histVars>>

\* delete().in('id', clipIds): the rows found are deleted; rows not found
\* are no error.
GatewayDeleteClips(q) ==
  /\ q \in Pending("deleteClips")
  /\ dbClips' = {c \in dbClips : c.id \notin q.ids}
  /\ inflight' = (inflight \ {q}) \cup
       {[q EXCEPT !.stage = "ok",
                  !.deleted = {c.id : c \in dbClips} \cap q.ids]}
  /\ op' = <<"gateway">>
  /\ UNCHANGED <<appVars, editorVars, draftsVars, dbVideos, dbFolders, videoSeq,
                 clipSeq, folderSeq, now, rangeVars, uploadVars, histVars>>

ClipsAfterDeleteUnchecked(q) ==
  SelectSeq(q.capClips, LAMBDA clip : clip.id \notin q.ids)
\* if (error) { ...; return; }  setClips(clips.filter(...))
ClipsAfterDelete(q) ==
  IF q.stage = "ok"
  THEN SelectSeq(q.capClips, LAMBDA clip : clip.id \notin q.ids)
  ELSE clips

\* handleDeleteClips after the await: on an error an alert, otherwise the
\* clips it closed over without the ids it was called with.
ResponseDeleteClips(q) ==
  /\ q \in Answered("deleteClips")
  /\ inflight' = inflight \ {q}
  /\ clips' = ClipsAfterDelete(q)
  /\ op' = IF q.stage = "ok"
           THEN <<"responseDeleteClips", q.ids, q.deleted>>
           ELSE ResponseOp(q)
  /\ UNCHANGED <<currentView, videos, selectedVideo, currentTime, showPlayer,
                 editorVars, draftsVars, dbVars, now, rangeVars, uploadVars, histVars>>

(***************************************************************************)
(* The checks of the range applied on their own to given arguments.        *)
(***************************************************************************)
RangeInputs ==
  [start : RangeSamples, end : RangeSamples, duration : Durations,
   input : RangeNumberInputs]

\* The range check of handleCreateClip on (start, end) for a video of the
\* given duration.
ValidateRange ==
  /\ rangeOut.op = "none"
  /\ rangeOut' = [op |-> "validate",
                  accepted |-> RangeCheck(rangeIn.start, rangeIn.end)]
  /\ op' = <<"validateRange">>
  /\ UNCHANGED <<appVars, editorVars, draftsVars, dbVars, inflight, now, rangeIn,
                 histVars, uploadVars>>

\* The end time kept when the number input proposes one.
ClampEndInput ==
  /\ rangeOut.op = "none"
  /\ rangeOut' = [op |-> "clampEnd", end |-> ClampEnd(rangeIn.input, rangeIn.duration)]
  /\ op' = <<"clampEndInput">>
  /\ UNCHANGED <<appVars, editorVars, draftsVars, dbVars, inflight, now, rangeIn,
                 histVars, uploadVars>>

(***************************************************************************)
(* The formatting of times: strings are sequences of characters.           *)
(* Number.prototype.toString writes a whole number in decimal digits,      *)
(* String.prototype.padStart puts the pad character in front until the     *)
(* length is reached, % takes the sign of the dividend.                    *)
(***************************************************************************)
DigitChars == <<"0", "1", "2", "3", "4", "5", "6", "7", "8", "9">>

RECURSIVE ToString(_)
ToString(n) ==
  IF n < 0 THEN <<"-">> \o ToString(-n)
  ELSE IF n < 10 THEN <<DigitChars[n + 1]>>
  ELSE ToString(n \div 10) \o <<DigitChars[(n % 10) + 1]>>

PadStartNone(str, len, ch) == str

RECURSIVE PadStart(_, _, _)
PadStart(str, len, ch) ==
  IF Len(str) >= len THEN str ELSE PadStart(<<ch>> \o str, len, ch)

Remainder(a, b) == IF a >= 0 THEN a % b ELSE -((-a) % b)

\* ClipEditor's formatTime, on whole seconds.
formatTime(seconds) ==
  LET mins == seconds \div 60
      secs == Remainder(seconds, 60)
  IN  ToString(mins) \o <<":">> \o PadStart(ToString(secs), 2, "0")

\* DraftsManager's formatDuration, on whole seconds.
formatDuration(start, end) ==
  LET duration == end - start
      mins == duration \div 60
      secs == Remainder(duration, 60)
  IN  ToString(mins) \o <<":">> \o PadStart(ToString(secs), 2, "0")

FormatInputs ==
  {[start |-> s, end |-> e, duration |-> 0, input |-> NaN] :
     s \in 0..MaxSeconds, e \in {MaxSeconds}}

FormatTimeOfStart ==
  /\ rangeOut.op = "none"
  /\ rangeOut' = [op |-> "formatTime", seconds |-> rangeIn.start,
                  text |-> formatTime(rangeIn.start)]
  /\ op' = <<"formatTime">>
  /\ UNCHANGED <<appVars, editorVars, draftsVars, dbVars, inflight, now, rangeIn,
                 histVars, uploadVars>>

FormatTimeOfEnd ==
  /\ rangeOut.op = "none"
  /\ rangeOut' = [op |-> "formatTime", seconds |-> rangeIn.end,
                  text |-> formatTime(rangeIn.end)]
  /\ op' = <<"formatTime">>
  /\ UNCHANGED <<appVars, editorVars, draftsVars, dbVars, inflight, now, rangeIn,
                 histVars, uploadVars>>

FormatDurationOfClip ==
  /\ rangeOut.op = "none"
  /\ rangeOut' = [op |-> "formatDuration", seconds |-> rangeIn.end - rangeIn.start,
                  text |-> formatDuration(rangeIn.start, rangeIn.end)]
  /\ op' = <<"formatDuration">>
  /\ UNCHANGED <<appVars, editorVars, draftsVars, dbVars, inflight, now, rangeIn,
                 histVars, uploadVars>>

(***************************************************************************)
(* Initial states.                                                         *)
(***************************************************************************)
\* The first render, the store empty and the loads of the first effect answered.
Init ==
  /\ currentView = "upload"
  /\ videos = <<>>
  /\ clips = <<>>
  /\ selectedVideo = NoVideo
  /\ currentTime = 0
  /\ showPlayer = FALSE
  /\ clipTitle = <<>>
  /\ startTime = 0
  /\ endTime = 0
  /\ textOverlays = <<>>
  /\ aspectRatio = DefaultAspectRatio
  /\ subtitleEnabled = TRUE
  /\ subtitleFont = DefaultFont
  /\ subtitleDesign = DefaultDesign
  /\ folders = <<>>
  /\ newFolderName = <<>>
  /\ isCreatingFolder = FALSE
  /\ editingFolderId = NoId
  /\ editingFolderName = <<>>
  /\ selectedClips = <<>>
  /\ expandedFolders = {}
  /\ dbVideos = {}
  /\ dbClips = {}
  /\ dbFolders = {}
  /\ videoSeq = 0
  /\ clipSeq = 0
  /\ folderSeq = 0
  /\ inflight = {}
  /\ now = 0
  /\ rangeIn = [start |-> 0, end |-> 0, duration |-> 0, input |-> NaN]
  /\ rangeOut = [op |-> "none"]
  /\ op = <<"init">>
  /\ returned = "none"
  /\ removedIds = {}
  /\ isProcessing = FALSE
  /\ probes = {}

\* Arguments for the range checks.
InitRange ==
  /\ currentView = "upload"
  /\ videos = <<>>
  /\ clips = <<>>
  /\ selectedVideo = NoVideo
  /\ currentTime = 0
  /\ showPlayer = FALSE
  /\ clipTitle = <<>>
  /\ startTime = 0
  /\ endTime = 0
  /\ textOverlays = <<>>
  /\ aspectRatio = DefaultAspectRatio
  /\ subtitleEnabled = TRUE
  /\ subtitleFont = DefaultFont
  /\ subtitleDesign = DefaultDesign
  /\ folders = <<>>
  /\ newFolderName = <<>>
  /\ isCreatingFolder = FALSE
  /\ editingFolderId = NoId
  /\ editingFolderName = <<>>
  /\ selectedClips = <<>>
  /\ expandedFolders = {}
  /\ dbVideos = {}
  /\ dbClips = {}
  /\ dbFolders = {}
  /\ videoSeq = 0
  /\ clipSeq = 0
  /\ folderSeq = 0
  /\ inflight = {}
  /\ now = 0
  /\ rangeIn \in RangeInputs
  /\ rangeOut = [op |-> "none"]
  /\ op = <<"init">>
  /\ returned = "none"
  /\ removedIds = {}
  /\ isProcessing = FALSE
  /\ probes = {}

\* Arguments for the formatting of times: a start, and an end at or after it.
InitFormat ==
  /\ currentView = "upload"
  /\ videos = <<>>
  /\ clips = <<>>
  /\ selectedVideo = NoVideo
  /\ currentTime = 0
  /\ showPlayer = FALSE
  /\ clipTitle = <<>>
  /\ startTime = 0
  /\ endTime = 0
  /\ textOverlays = <<>>
  /\ aspectRatio = DefaultAspectRatio
  /\ subtitleEnabled = TRUE
  /\ subtitleFont = DefaultFont
  /\ subtitleDesign = DefaultDesign
  /\ folders = <<>>
  /\ newFolderName = <<>>
  /\ isCreatingFolder = FALSE
  /\ editingFolderId = NoId
  /\ editingFolderName = <<>>
  /\ selectedClips = <<>>
  /\ expandedFolders = {}
  /\ dbVideos = {}
  /\ dbClips = {}
  /\ dbFolders = {}
  /\ videoSeq = 0
  /\ clipSeq = 0
  /\ folderSeq = 0
  /\ inflight = {}
  /\ now = 0
  /\ rangeIn \in FormatInputs
  /\ rangeOut = [op |-> "none"]
  /\ op = <<"init">>
  /\ returned = "none"
  /\ removedIds = {}
  /\ isProcessing = FALSE
  /\ probes = {}

\* A video of 40 seconds was added and its insert answered: the editor has
\* just been mounted on it.
FirstVideo == [id |-> 1, duration |-> 40]

InitEditing ==
  /\ currentView = "editor"
  /\ videos = <<FirstVideo>>
  /\ clips = <<>>
  /\ selectedVideo = FirstVideo
  /\ currentTime = 0
  /\ showPlayer = TRUE
  /\ clipTitle = <<>>
  /\ startTime = 0
  /\ endTime = InitialEnd(FirstVideo.duration)
  /\ textOverlays = <<>>
  /\ aspectRatio = DefaultAspectRatio
  /\ subtitleEnabled = TRUE
  /\ subtitleFont = DefaultFont
  /\ subtitleDesign = DefaultDesign
  /\ folders = <<>>
  /\ newFolderName = <<>>
  /\ isCreatingFolder = FALSE
  /\ editingFolderId = NoId
  /\ editingFolderName = <<>>
  /\ selectedClips = <<>>
  /\ expandedFolders = {}
  /\ dbVideos = {FirstVideo}
  /\ dbClips = {}
  /\ dbFolders = {}
  /\ videoSeq = 1
  /\ clipSeq = 0
  /\ folderSeq = 0
  /\ inflight = {}
  /\ now = 0
  /\ rangeIn = [start |-> 0, end |-> 0, duration |-> 0, input |-> NaN]
  /\ rangeOut = [op |-> "none"]
  /\ op = <<"init">>
  /\ returned = "none"
  /\ removedIds = {}
  /\ isProcessing = FALSE
  /\ probes = {}

\* The drafts view opened on two clips of an earlier session, the select of
\* loadFolders just sent.
StoredClips ==
  {[id |-> i, video_id |-> FirstVideo.id, folder_id |-> NoId, title |-> <<"a">>,
    start_time |-> 0, end_time |-> 30, aspect_ratio |-> DefaultAspectRatio,
    subtitle_enabled |-> TRUE,
    subtitle_settings |-> [font |-> DefaultFont, design |-> DefaultDesign],
    text_overlays |-> <<>>] : i \in 1..2}

InitDrafts ==
  /\ currentView = "drafts"
  /\ videos = <<FirstVideo>>
  /\ clips = NewestFirstById(StoredClips)
  /\ selectedVideo = NoVideo
  /\ currentTime = 0
  /\ showPlayer = FALSE
  /\ clipTitle = <<>>
  /\ startTime = 0
  /\ endTime = 0
  /\ textOverlays = <<>>
  /\ aspectRatio = DefaultAspectRatio
  /\ subtitleEnabled = TRUE
  /\ subtitleFont = DefaultFont
  /\ subtitleDesign = DefaultDesign
  /\ folders = <<>>
  /\ newFolderName = <<>>
  /\ isCreatingFolder = FALSE
  /\ editingFolderId = NoId
  /\ editingFolderName = <<>>
  /\ selectedClips = <<>>
  /\ expandedFolders = {}
  /\ dbVideos = {FirstVideo}
  /\ dbClips = StoredClips
  /\ dbFolders = {}
  /\ videoSeq = 1
  /\ clipSeq = 2
  /\ folderSeq = 0
  /\ inflight = {LoadFoldersCall(1)}
  /\ now = 0
  /\ rangeIn = [start |-> 0, end |-> 0, duration |-> 0, input |-> NaN]
  /\ rangeOut = [op |-> "none"]
  /\ op = <<"init">>
  /\ returned = "none"
  /\ removedIds = {}
  /\ isProcessing = FALSE
  /\ probes = {}

\* The drafts view on the same two clips and on one folder of an earlier
\* session, the first loadFolders answered.
FirstFolder == [id |-> 1, name |-> <<"a">>, created_at |-> 1]

InitOrganize ==
  /\ currentView = "drafts"
  /\ videos = <<FirstVideo>>
  /\ clips = NewestFirstById(StoredClips)
  /\ selectedVideo = NoVideo
  /\ currentTime = 0
  /\ showPlayer = FALSE
  /\ clipTitle = <<>>
  /\ startTime = 0
  /\ endTime = 0
  /\ textOverlays = <<>>
  /\ aspectRatio = DefaultAspectRatio
  /\ subtitleEnabled = TRUE
  /\ subtitleFont = DefaultFont
  /\ subtitleDesign = DefaultDesign
  /\ folders = <<FirstFolder>>
  /\ newFolderName = <<>>
  /\ isCreatingFolder = FALSE
  /\ editingFolderId = NoId
  /\ editingFolderName = <<>>
  /\ selectedClips = <<>>
  /\ expandedFolders = {}
  /\ dbVideos = {FirstVideo}
  /\ dbClips = StoredClips
  /\ dbFolders = {FirstFolder}
  /\ videoSeq = 1
  /\ clipSeq = 2
  /\ folderSeq = 1
  /\ inflight = {}
  /\ now = 0
  /\ rangeIn = [start |-> 0, end |-> 0, duration |-> 0, input |-> NaN]
  /\ rangeOut = [op |-> "none"]
  /\ op = <<"init">>
  /\ returned = "none"
  /\ removedIds = {}
  /\ isProcessing = FALSE
  /\ probes = {}

\* The drafts view just opened on a store of an earlier session in which
\* the first clip is filed in the folder: the clips are loaded, the select of
\* loadFolders just sent.
FiledClips ==
  {[c EXCEPT !.folder_id = IF c.id = 1 THEN FirstFolder.id ELSE NoId] :
     c \in StoredClips}

InitFiled ==
  /\ currentView = "drafts"
  /\ videos = <<FirstVideo>>
  /\ clips = NewestFirstById(FiledClips)
  /\ selectedVideo = NoVideo
  /\ currentTime = 0
  /\ showPlayer = FALSE
  /\ clipTitle = <<>>
  /\ startTime = 0
  /\ endTime = 0
  /\ textOverlays = <<>>
  /\ aspectRatio = DefaultAspectRatio
  /\ subtitleEnabled = TRUE
  /\ subtitleFont = DefaultFont
  /\ subtitleDesign = DefaultDesign
  /\ folders = <<>>
  /\ newFolderName = <<>>
  /\ isCreatingFolder = FALSE
  /\ editingFolderId = NoId
  /\ editingFolderName = <<>>
  /\ selectedClips = <<>>
  /\ expandedFolders = {}
  /\ dbVideos = {FirstVideo}
  /\ dbClips = FiledClips
  /\ dbFolders = {FirstFolder}
  /\ videoSeq = 1
  /\ clipSeq = 2
  /\ folderSeq = 1
  /\ inflight = {LoadFoldersCall(1)}
  /\ now = 0
  /\ rangeIn = [start |-> 0, end |-> 0, duration |-> 0, input |-> NaN]
  /\ rangeOut = [op |-> "none"]
  /\ op = <<"init">>
  /\ returned = "none"
  /\ removedIds = {}
  /\ isProcessing = FALSE
  /\ probes = {}

\* The drafts view of a later session: the clips stored are loaded, the
\* folders stored were made by earlier sessions (their ids lie outside
\* those the store gives in this run), listedFolders is what the view
\* lists and calls what is in flight.
DraftsOn(storedClips, storedFolders, listedFolders, calls) ==
  /\ currentView = "drafts"
  /\ videos = <<FirstVideo>>
  /\ clips = NewestFirstById(storedClips)
  /\ selectedVideo = NoVideo
  /\ currentTime = 0
  /\ showPlayer = FALSE
  /\ clipTitle = <<>>
  /\ startTime = 0
  /\ endTime = 0
  /\ textOverlays = <<>>
  /\ aspectRatio = DefaultAspectRatio
  /\ subtitleEnabled = TRUE
  /\ subtitleFont = DefaultFont
  /\ subtitleDesign = DefaultDesign
  /\ folders = listedFolders
  /\ newFolderName = <<>>
  /\ isCreatingFolder = FALSE
  /\ editingFolderId = NoId
  /\ editingFolderName = <<>>
  /\ selectedClips = <<>>
  /\ expandedFolders = {}
  /\ dbVideos = {FirstVideo}
  /\ dbClips = storedClips
  /\ dbFolders = storedFolders
  /\ videoSeq = 1
  /\ clipSeq = 2
  /\ folderSeq = 0
  /\ inflight = calls
  /\ now = 0
  /\ rangeIn = [start |-> 0, end |-> 0, duration |-> 0, input |-> NaN]
  /\ rangeOut = [op |-> "none"]
  /\ op = <<"init">>
  /\ returned = "none"
  /\ removedIds = {}
  /\ isProcessing = FALSE
  /\ probes = {}

\* Two folders stored with one created_at (rows of one transaction carry
\* the same now()); the drafts view has just been opened.
TiedFolders ==
  {[id |-> MaxFolders + 1, name |-> <<"a">>, created_at |-> 0],
   [id |-> MaxFolders + 2, name |-> <<"b">>, created_at |-> 0]}

InitTied == DraftsOn(StoredClips, TiedFolders, <<>>, {LoadFoldersCall(1)})

\* The editor mounted on the first video, with one clip of an earlier
\* session stored and loaded; its id is outside those the store gives to
\* the clips inserted in this run.
EarlierClip ==
  [id |-> MaxClips + 1, video_id |-> FirstVideo.id, folder_id |-> NoId,
   title |-> <<"a">>, start_time |-> 0, end_time |-> 30,
   aspect_ratio |-> DefaultAspectRatio, subtitle_enabled |-> TRUE,
   subtitle_settings |-> [font |-> DefaultFont, design |-> DefaultDesign],
   text_overlays |-> <<>>]

InitSession ==
  /\ currentView = "editor"
  /\ videos = <<FirstVideo>>
  /\ clips = <<EarlierClip>>
  /\ selectedVideo = FirstVideo
  /\ currentTime = 0
  /\ showPlayer = TRUE
  /\ clipTitle = <<>>
  /\ startTime = 0
  /\ endTime = InitialEnd(FirstVideo.duration)
  /\ textOverlays = <<>>
  /\ aspectRatio = DefaultAspectRatio
  /\ subtitleEnabled = TRUE
  /\ subtitleFont = DefaultFont
  /\ subtitleDesign = DefaultDesign
  /\ folders = <<>>
  /\ newFolderName = <<>>
  /\ isCreatingFolder = FALSE
  /\ editingFolderId = NoId
  /\ editingFolderName = <<>>
  /\ selectedClips = <<>>
  /\ expandedFolders = {}
  /\ dbVideos = {FirstVideo}
  /\ dbClips = {EarlierClip}
  /\ dbFolders = {}
  /\ videoSeq = 1
  /\ clipSeq = 0
  /\ folderSeq = 0
  /\ inflight = {}
  /\ now = 0
  /\ rangeIn = [start |-> 0, end |-> 0, duration |-> 0, input |-> NaN]
  /\ rangeOut = [op |-> "none"]
  /\ op = <<"init">>
  /\ returned = "none"
  /\ removedIds = {}
  /\ isProcessing = FALSE
  /\ probes = {}

\* The editor of a later session mounted on the first video: the videos and
\* clips stored are loaded, the folders stored were made by earlier
\* sessions.
EditorOn(storedVideos, storedClips, storedFolders) ==
  /\ currentView = "editor"
  /\ videos = NewestFirstById(storedVideos)
  /\ clips = NewestFirstById(storedClips)
  /\ selectedVideo = FirstVideo
  /\ currentTime = 0
  /\ showPlayer = TRUE
  /\ clipTitle = <<>>
  /\ startTime = 0
  /\ endTime = InitialEnd(FirstVideo.duration)
  /\ textOverlays = <<>>
  /\ aspectRatio = DefaultAspectRatio
  /\ subtitleEnabled = TRUE
  /\ subtitleFont = DefaultFont
  /\ subtitleDesign = DefaultDesign
  /\ folders = <<>>
  /\ newFolderName = <<>>
  /\ isCreatingFolder = FALSE
  /\ editingFolderId = NoId
  /\ editingFolderName = <<>>
  /\ selectedClips = <<>>
  /\ expandedFolders = {}
  /\ dbVideos = storedVideos
  /\ dbClips = storedClips
  /\ dbFolders = storedFolders
  /\ videoSeq = Cardinality(storedVideos)
  /\ clipSeq = 0
  /\ folderSeq = 0
  /\ inflight = {}
  /\ now = 0
  /\ rangeIn = [start |-> 0, end |-> 0, duration |-> 0, input |-> NaN]
  /\ rangeOut = [op |-> "none"]
  /\ op = <<"init">>
  /\ returned = "none"
  /\ removedIds = {}
  /\ isProcessing = FALSE
  /\ probes = {}

\* Two folders of earlier sessions, and the editor of a session that finds
\* them and one clip stored.
EarlierFolders ==
  {[id |-> MaxFolders + 1, name |-> <<"a">>, created_at |-> -1],
   [id |-> MaxFolders + 2, name |-> <<"b">>, created_at |-> 0]}

InitAssign == EditorOn({FirstVideo}, {EarlierClip}, EarlierFolders)

\* A second video stored and loaded.
SecondVideo == [id |-> 2, duration |-> 10]

InitParent == EditorOn({FirstVideo, SecondVideo}, {EarlierClip}, EarlierFolders)

\* The drafts view with both folders of the earlier sessions loaded.
InitReload ==
  DraftsOn(StoredClips, EarlierFolders,
           CHOOSE s \in NewestFirstOrders(EarlierFolders) : TRUE, {})

(***************************************************************************)
(* Specifications.                                                         *)
(***************************************************************************)
NextRange ==
  \/ ValidateRange
  \/ ClampEndInput

SpecRange == InitRange /\ [][NextRange]_vars

\* The labels of the editor (start and end) and of the drafts view (duration).
NextFormat ==
  \/ FormatTimeOfStart
  \/ FormatTimeOfEnd
  \/ FormatDurationOfClip

SpecFormat == InitFormat /\ [][NextFormat]_vars

\* Adding and selecting videos, editing the title and the range, creating clips.
NextEditor ==
  \/ \E title \in Titles : SetClipTitle(title)
  \/ \E value \in SliderValues : StartSlider(value)
  \/ \E input \in NumberInputs : StartNumber(input)
  \/ \E value \in SliderValues : EndSlider(value)
  \/ \E input \in NumberInputs : EndNumber(input)
  \/ handleCreateClip
  \/ \E q \in inflight : GatewayInsertClip(q)
  \/ \E q \in inflight : GatewayInsertVideo(q)
  \/ \E q \in inflight : GatewayFail(q)
  \/ \E q \in inflight : ResponseInsertClip(q)
  \/ \E q \in inflight : ResponseInsertVideo(q)
  \/ \E duration \in Durations : handleVideoAdded(duration)
  \/ \E video \in Range(videos) : handleSelectVideo(video)
  \/ NavUpload
  \/ NavEditor

SpecEditor == Init /\ [][NextEditor]_vars

\* Editing the overlays of one draft.
NextOverlay ==
  \/ handleAddTextOverlay
  \/ \E id \in OverlayIds, updates \in OverlayUpdates : handleUpdateTextOverlay(id, updates)
  \/ \E id \in OverlayIds : handleRemoveTextOverlay(id)
  \/ Tick

SpecOverlay == InitEditing /\ [][NextOverlay]_vars

\* Filling in one draft and creating clips from it.
NextCreate ==
  \/ \E title \in Titles : SetClipTitle(title)
  \/ \E input \in NumberInputs : StartNumber(input)
  \/ \E input \in NumberInputs : EndNumber(input)
  \/ handleAddTextOverlay
  \/ handleCreateClip
  \/ \E q \in inflight : GatewayInsertClip(q)
  \/ \E q \in inflight : GatewayFail(q)
  \/ \E q \in inflight : ResponseInsertClip(q)

SpecCreate == InitEditing /\ [][NextCreate]_vars

\* The subtitle controls of one draft, and the clips created from it.
NextSubtitle ==
  \/ SetClipTitle(<<"a">>)
  \/ \E checked \in BOOLEAN : SetSubtitleEnabled(checked)
  \/ \E font \in SUBTITLE_FONTS : SetSubtitleFont(font)
  \/ \E design \in SUBTITLE_DESIGNS : SetSubtitleDesign(design)
  \/ handleCreateClip
  \/ \E q \in inflight : GatewayInsertClip(q)
  \/ \E q \in inflight : ResponseInsertClip(q)

SpecSubtitle == InitEditing /\ [][NextSubtitle]_vars

\* One draft with its range, an overlay, the aspect ratio and the subtitle
\* controls set, and the clip created from it, whose insert may fail; the
\* user touches the draft only when no call is in flight and no clip has
\* been stored yet.
FirstDraft == Idle /\ dbClips = {}

NextReset ==
  \/ FirstDraft /\ SetClipTitle(<<"a">>)
  \/ FirstDraft /\ StartNumber(Num(10))
  \/ FirstDraft /\ EndNumber(Num(20))
  \/ FirstDraft /\ handleAddTextOverlay
  \/ FirstDraft /\ SetAspectRatio("9:16")
  \/ FirstDraft /\ SetSubtitleEnabled(FALSE)
  \/ FirstDraft /\ SetSubtitleFont("Georgia")
  \/ FirstDraft /\ SetSubtitleDesign("bold")
  \/ handleCreateClip
  \/ \E q \in inflight : GatewayInsertClip(q)
  \/ \E q \in inflight : GatewayFail(q)
  \/ \E q \in inflight : ResponseInsertClip(q)

SpecReset == InitEditing /\ [][NextReset]_vars

\* The folders of the drafts view: creating, renaming and deleting them.
NextFolders ==
  \/ ClickNewFolder
  \/ \E name \in Names : SetNewFolderName(name)
  \/ CancelNewFolder
  \/ createFolder /\ WithinLimit
  \/ \E folder \in Range(folders) : StartEditFolder(folder)
  \/ \E name \in Names : SetEditingFolderName(name)
  \/ CancelEditFolder
  \/ \E folderId \in 1..MaxFolders : updateFolder(folderId) /\ WithinLimit
  \/ \E folderId \in 1..MaxFolders, confirmed \in BOOLEAN :
        deleteFolder(folderId, confirmed) /\ WithinLimit
  \/ \E q \in inflight : GatewayInsertFolder(q)
  \/ \E q \in inflight : GatewayUpdateFolder(q)
  \/ \E q \in inflight : GatewayDeleteFolder(q)
  \/ \E q \in inflight : GatewaySelectFolders(q)
  \/ \E q \in inflight : GatewayFail(q)
  \/ \E q \in inflight : ResponseInsertFolder(q)
  \/ \E q \in inflight : ResponseUpdateFolder(q)
  \/ \E q \in inflight : ResponseDeleteFolder(q)
  \/ \E q \in inflight : ResponseSelectFolders(q)

SpecFolders == InitDrafts /\ [][NextFolders]_vars

\* A session that creates a clip and then, in the drafts view, moves clips
\* between two folders and out of them and deletes folders, one call at a
\* time.
NextAssign ==
  \/ SetClipTitle(<<"a">>)
  \/ Idle /\ handleCreateClip
  \/ Idle /\ NavDrafts
  \/ \E clipIds \in (SUBSET {c.id : c \in Range(clips)}) \ {{}},
        folderId \in {NoId} \cup {f.id : f \in EarlierFolders} :
        Idle /\ moveClipsToFolder(clipIds, folderId)
  \/ \E folder \in Range(folders) : Idle /\ deleteFolder(folder.id, TRUE)
  \/ \E q \in inflight : GatewayInsertClip(q)
  \/ \E q \in inflight : GatewayUpdateClips(q)
  \/ \E q \in inflight : GatewayDeleteFolder(q)
  \/ \E q \in inflight : GatewaySelectFolders(q)
  \/ \E q \in inflight : ResponseInsertClip(q)
  \/ \E q \in inflight : ResponseUpdateClips(q)
  \/ \E q \in inflight : ResponseDeleteFolder(q)
  \/ \E q \in inflight : ResponseSelectFolders(q)

SpecAssign == InitAssign /\ [][NextAssign]_vars

\* A session over two videos: a video is picked in the library, a clip is
\* created from it, and in the drafts view clips are ticked, moved and
\* deleted and folders deleted, one call at a time.
NextParent ==
  \/ Idle /\ NavUpload
  \/ \E video \in Range(videos) : Idle /\ handleSelectVideo(video)
  \/ Idle /\ SetClipTitle(<<"a">>)
  \/ Idle /\ handleCreateClip
  \/ Idle /\ NavDrafts
  \/ \E clipId \in 1..(MaxClips + 1) : Idle /\ toggleClipSelection(clipId)
  \/ Idle /\ handleDeleteClips(TRUE)
  \/ \E clipId \in 1..(MaxClips + 1), folder \in EarlierFolders :
        Idle /\ moveClipsToFolder({clipId}, folder.id)
  \/ \E folder \in Range(folders) : Idle /\ deleteFolder(folder.id, TRUE)
  \/ \E q \in inflight : GatewayInsertClip(q)
  \/ \E q \in inflight : GatewayDeleteClips(q)
  \/ \E q \in inflight : GatewayUpdateClips(q)
  \/ \E q \in inflight : GatewayDeleteFolder(q)
  \/ \E q \in inflight : GatewaySelectFolders(q)
  \/ \E q \in inflight : ResponseInsertClip(q)
  \/ \E q \in inflight : ResponseDeleteClips(q)
  \/ \E q \in inflight : ResponseUpdateClips(q)
  \/ \E q \in inflight : ResponseDeleteFolder(q)
  \/ \E q \in inflight : ResponseSelectFolders(q)

SpecParent == InitParent /\ [][NextParent]_vars

\* Folders are renamed and deleted without waiting for the reload
\* of the step before: the selects of loadFolders overlap each other and
\* the next call, and are answered in any order.  No call fails.
NextReload ==
  \/ \E folder \in Range(folders) : StartEditFolder(folder)
  \/ SetEditingFolderName(<<"a">>)
  \/ \E folder \in Range(folders) : updateFolder(folder.id)
  \/ \E folder \in Range(folders) : deleteFolder(folder.id, TRUE)
  \/ \E q \in inflight : GatewayUpdateFolder(q)
  \/ \E q \in inflight : GatewayDeleteFolder(q)
  \/ \E q \in inflight : GatewaySelectFolders(q)
  \/ \E q \in inflight : ResponseUpdateFolder(q)
  \/ \E q \in inflight : ResponseDeleteFolder(q)
  \/ \E q \in inflight : ResponseSelectFolders(q)

SpecReload == InitReload /\ [][NextReload]_vars

\* The folders of the drafts view when two folders stored carry the same
\* created_at: a third is created, folders are renamed and deleted, one call
\* at a time.
NextTies ==
  \/ ClickNewFolder
  \/ SetNewFolderName(<<"a">>)
  \/ Idle /\ createFolder
  \/ \E folder \in Range(folders) : StartEditFolder(folder)
  \/ SetEditingFolderName(<<"a">>)
  \/ \E folder \in Range(folders) : Idle /\ updateFolder(folder.id)
  \/ \E folder \in Range(folders) : Idle /\ deleteFolder(folder.id, TRUE)
  \/ \E q \in inflight : GatewayInsertFolder(q)
  \/ \E q \in inflight : GatewayUpdateFolder(q)
  \/ \E q \in inflight : GatewayDeleteFolder(q)
  \/ \E q \in inflight : GatewaySelectFolders(q)
  \/ \E q \in inflight : ResponseInsertFolder(q)
  \/ \E q \in inflight : ResponseUpdateFolder(q)
  \/ \E q \in inflight : ResponseDeleteFolder(q)
  \/ \E q \in inflight : ResponseSelectFolders(q)

SpecTies == InitTied /\ [][NextTies]_vars

\* Filing the clips of the drafts view: moving clips into the folder and out
\* of it, deleting the folder.
NextOrganize ==
  \/ \E folderId \in 1..MaxFolders, confirmed \in BOOLEAN :
        deleteFolder(folderId, confirmed) /\ WithinLimit
  \/ \E clipIds \in (SUBSET {c.id : c \in Range(clips)}) \ {{}}, folderId \in 0..MaxFolders :
        moveClipsToFolder(clipIds, folderId) /\ WithinLimit
  \/ \E q \in inflight : GatewayDeleteFolder(q)
  \/ \E q \in inflight : GatewaySelectFolders(q)
  \/ \E q \in inflight : GatewayUpdateClips(q)
  \/ \E q \in inflight : GatewayFail(q)
  \/ \E q \in inflight : ResponseDeleteFolder(q)
  \/ \E q \in inflight : ResponseSelectFolders(q)
  \/ \E q \in inflight : ResponseUpdateClips(q)

SpecOrganize == InitOrganize /\ [][NextOrganize]_vars

\* The lists of the drafts view over a store with a filed clip: loading the
\* folders, ticking clips, deleting the folder.
NextView ==
  \/ \E clipId \in 1..2 : toggleClipSelection(clipId)
  \/ ClearSelection
  \/ \E folderId \in 1..MaxFolders : toggleFolderExpansion(folderId)
  \/ \E folder \in Range(folders) : StartEditFolder(folder)
  \/ CancelEditFolder
  \/ \E folderId \in 1..MaxFolders, confirmed \in BOOLEAN :
        deleteFolder(folderId, confirmed) /\ WithinLimit
  \/ \E q \in inflight : GatewayDeleteFolder(q)
  \/ \E q \in inflight : GatewaySelectFolders(q)
  \/ \E q \in inflight : GatewayFail(q)
  \/ \E q \in inflight : ResponseDeleteFolder(q)
  \/ \E q \in inflight : ResponseSelectFolders(q)

SpecView == InitFiled /\ [][NextView]_vars

\* Leaving the drafts view and coming back to it, with clips ticked and
\* folders unfolded.
NextNav ==
  \/ \E clipId \in 1..2 : toggleClipSelection(clipId)
  \/ \E folderId \in 1..MaxFolders : toggleFolderExpansion(folderId)
  \/ ClearSelection
  \/ \E folder \in Range(folders) : StartEditFolder(folder)
  \/ CancelEditFolder
  \/ NavUpload
  \/ NavDrafts
  \/ \E q \in inflight : GatewaySelectFolders(q)
  \/ \E q \in inflight : ResponseSelectFolders(q)

SpecNav == InitFiled /\ [][NextNav]_vars

\* The selection of the drafts view and the deletion of the clips selected.
NextSelect ==
  \/ \E clipId \in 1..2 : toggleClipSelection(clipId)
  \/ ClearSelection
  \/ \E confirmed \in BOOLEAN : handleDeleteClips(confirmed)
  \/ \E q \in inflight : GatewayDeleteClips(q)
  \/ \E q \in inflight : GatewaySelectFolders(q)
  \/ \E q \in inflight : GatewayFail(q)
  \/ \E q \in inflight : ResponseDeleteClips(q)
  \/ \E q \in inflight : ResponseSelectFolders(q)

SpecSelect == InitDrafts /\ [][NextSelect]_vars

\* One session that creates a clip in the editor and deletes clips in the
\* drafts view, the calls answered in any order.
NextSession ==
  \/ \E title \in Titles : SetClipTitle(title)
  \/ handleCreateClip
  \/ NavDrafts
  \/ \E clipId \in 1..(MaxClips + 1) : toggleClipSelection(clipId)
  \/ \E confirmed \in BOOLEAN : handleDeleteClips(confirmed)
  \/ \E q \in inflight : GatewayInsertClip(q)
  \/ \E q \in inflight : GatewayDeleteClips(q)
  \/ \E q \in inflight : GatewaySelectFolders(q)
  \/ \E q \in inflight : GatewayFail(q)
  \/ \E q \in inflight : ResponseInsertClip(q)
  \/ \E q \in inflight : ResponseDeleteClips(q)
  \/ \E q \in inflight : ResponseSelectFolders(q)

SpecSession == InitSession /\ [][NextSession]_vars

\* One session in which calls fail: a clip is created in the editor, then in
\* the drafts view clips are deleted and a folder is created, renamed and
\* deleted; the user waits for the answer of one call before the next
\* (the load of the opening drafts view apart).

NextFailure ==
  \/ SetClipTitle(<<"a">>)
  \/ Idle /\ handleCreateClip
  \/ NavDrafts
  \/ toggleClipSelection(EarlierClip.id)
  \/ \E confirmed \in BOOLEAN : Idle /\ handleDeleteClips(confirmed)
  \/ ClickNewFolder
  \/ SetNewFolderName(<<"a">>)
  \/ Idle /\ createFolder
  \/ \E folder \in Range(folders) : StartEditFolder(folder)
  \/ \E folderId \in 1..MaxFolders : Idle /\ updateFolder(folderId)
  \/ \E folderId \in 1..MaxFolders : Idle /\ deleteFolder(folderId, TRUE)
  \/ \E q \in inflight : GatewayInsertClip(q)
  \/ \E q \in inflight : GatewayDeleteClips(q)
  \/ \E q \in inflight : GatewayInsertFolder(q)
  \/ \E q \in inflight : GatewayUpdateFolder(q)
  \/ \E q \in inflight : GatewayDeleteFolder(q)
  \/ \E q \in inflight : GatewaySelectFolders(q)
  \/ \E q \in inflight : GatewayFail(q)
  \/ \E q \in inflight : ResponseInsertClip(q)
  \/ \E q \in inflight : ResponseDeleteClips(q)
  \/ \E q \in inflight : ResponseInsertFolder(q)
  \/ \E q \in inflight : ResponseUpdateFolder(q)
  \/ \E q \in inflight : ResponseDeleteFolder(q)
  \/ \E q \in inflight : ResponseSelectFolders(q)

SpecFailure == InitSession /\ [][NextFailure]_vars

(***************************************************************************)
(* Properties.                                                             *)
(***************************************************************************)
\* Blank after trimming: nothing but blanks.
IsBlank(s) == \A i \in DOMAIN s : s[i] = " "

\* a is b with some elements left out, the others in their order.
RECURSIVE IsSubSeq(_, _)
IsSubSeq(a, b) ==
  IF a = <<>> THEN TRUE
  ELSE IF b = <<>> THEN FALSE
  ELSE IF Head(a) = Head(b) THEN IsSubSeq(Tail(a), Tail(b))
  ELSE IsSubSeq(a, Tail(b))

\* The range of a clip is valid for its parent video.
ValidRange(start, end, duration) ==
  /\ 0 <= start
  /\ start < end
  /\ duration = 0 \/ end <= duration

DurationOf(videoId) == (CHOOSE v \in dbVideos : v.id = videoId).duration

\* C1: the range check of clip creation accepts (start, end) for a video of
\* the given duration if and only if 0 <= start < end and (duration = 0 or
\* end <= duration).
C1_RangeCheckAcceptsIffValid ==
  rangeOut.op = "validate" =>
    (rangeOut.accepted <=> ValidRange(rangeIn.start, rangeIn.end, rangeIn.duration))

\* C2: every clip handed to the gateway for insertion has 0 <= start_time <
\* end_time, and end_time <= the duration of its parent video when that
\* duration is not 0.
C2_InsertedClipsHaveValidRange ==
  \A q \in inflight :
    q.kind = "insertClip" =>
      ValidRange(q.row.start_time, q.row.end_time, DurationOf(q.row.video_id))

\* C3: the end time kept for a proposed end is min(proposed, duration) when
\* the duration is known (not 0) and the proposed end itself when it is 0.
C3_ClampEndKeepsProposedWhenUnknown ==
  (rangeOut.op = "clampEnd" /\ ~rangeIn.input.nan) =>
    rangeOut.end = IF rangeIn.duration # 0
                   THEN Min(rangeIn.input.val, rangeIn.duration)
                   ELSE rangeIn.input.val

\* C4: a create with a title that is blank after trimming sends no insert,
\* leaves the in-memory clips and the store as they were, and leaves the
\* draft (title, range, overlays) as it was.
C4_BlankTitleRejectedLocally ==
  [][(op' = <<"createClip">> /\ IsBlank(clipTitle)) =>
       UNCHANGED <<inflight, clips, dbVars, clipTitle, startTime, endTime,
                   textOverlays>>]_vars

\* A create was just refused for a title of one blank, the draft holding an
\* overlay and a range that would have passed the range check.
C4_Witness ==
  /\ op = <<"createClip">>
  /\ clipTitle = <<" ">>
  /\ textOverlays # <<>>
  /\ startTime < endTime
  /\ inflight = {}

\* C5: the identifiers of the overlays of the draft are pairwise distinct.
C5_OverlayIdsUnique ==
  \A i, j \in DOMAIN textOverlays :
    i # j => textOverlays[i].id # textOverlays[j].id

\* C6: no overlay of the draft carries an identifier that was removed
\* earlier in the same editing session.
C6_RemovedIdNeverReused ==
  \A i \in DOMAIN textOverlays : textOverlays[i].id \notin removedIds

\* The last step was an update or a remove of an overlay id that was not in
\* the collection.
AbsentIdStep ==
  /\ op'[1] \in {"updateOverlay", "removeOverlay"}
  /\ ~HasOverlay(textOverlays, op'[2])

C8_OverlaysKeepInsertionOrder ==
  [][/\ op'[1] = "addOverlay" =>
          /\ Len(textOverlays') = Len(textOverlays) + 1
          /\ SubSeq(textOverlays', 1, Len(textOverlays)) = textOverlays
          /\ textOverlays'[Len(textOverlays')].id = op'[2]
     /\ op'[1] = "updateOverlay" => Ids(textOverlays') = Ids(textOverlays)
     /\ op'[1] = "removeOverlay" =>
          /\ IsSubSeq(textOverlays', textOverlays)
          /\ \A i \in DOMAIN textOverlays' : textOverlays'[i].id # op'[2]
          /\ Len(textOverlays') =
               Cardinality({i \in DOMAIN textOverlays : textOverlays[i].id # op'[2]})
    ]_vars

\* An overlay was just added behind one that had been updated.
C8_Witness ==
  /\ op[1] = "addOverlay"
  /\ Len(textOverlays) = 2
  /\ textOverlays[1].text = "Hi"
  /\ textOverlays[1].id # textOverlays[2].id

\* C9: a folder create or a folder rename with a name that is blank after
\* trimming sends no request and changes no state of the session or of the
\* store; no folder stored or on its way to the store has a blank name.
C9_BlankFolderNameChangesNothing ==
  /\ [](/\ \A f \in dbFolders : ~IsBlank(f.name)
        /\ \A q \in inflight :
             q.kind \in {"insertFolder", "updateFolder"} => ~IsBlank(q.name))
  /\ [][(\/ op' = <<"createFolder">> /\ IsBlank(newFolderName)
         \/ op'[1] = "updateFolder" /\ IsBlank(editingFolderName)) =>
          UNCHANGED <<appVars, editorVars, draftsVars, dbVars, inflight>>]_vars

\* A rename of a stored folder to one blank was just refused.
C9_Witness ==
  /\ op[1] = "updateFolder"
  /\ editingFolderName = <<" ">>
  /\ \E f \in dbFolders : f.id = op[2]
  /\ inflight = {}

\* C10: when the store deletes folder f, every clip that referenced f is
\* still stored, now with no folder, no clip leaves the store, and f is no
\* longer stored.
C10_FolderDeleteKeepsClips ==
  [][op'[1] = "gatewayDeleteFolder" =>
       /\ \A c \in dbClips : c.folder_id = op'[2] =>
             [c EXCEPT !.folder_id = NoId] \in dbClips'
       /\ {c.id : c \in dbClips'} = {c.id : c \in dbClips}
       /\ \A c \in dbClips' : c.folder_id # op'[2]
       /\ \A f \in dbFolders' : f.id # op'[2]
    ]_vars

\* The store just deleted a folder that owned both clips.
C10_Witness ==
  /\ op[1] = "gatewayDeleteFolder"
  /\ Cardinality(op[3]) = 2
  /\ \A c \in dbClips : c.id \in op[3] /\ c.folder_id = NoId
  /\ dbFolders = {}

\* C11: while the drafts view is shown, the folder of every clip in memory
\* is none or a folder of the in-memory folder list.
C11_ClipFoldersAreListed ==
  DraftsShown =>
    \A clip \in Range(clips) :
      clip.folder_id = NoId \/ \E folder \in Range(folders) : folder.id = clip.folder_id

\* How many times the drafts view lists a clip: once if it is unorganized,
\* and once for each folder of the list it is filed in.
TimesListed(clip) ==
  (IF clip \in Range(unorganizedClips) THEN 1 ELSE 0) +
  Cardinality({i \in DOMAIN folders : clip \in Range(folderClips(folders[i]))})

\* C12: while the drafts view is shown, every clip in memory is listed
\* exactly once, among the unorganized clips or in one folder.
C12_ClipsListedExactlyOnce ==
  DraftsShown => \A clip \in Range(clips) : TimesListed(clip) = 1

\* The folder ids of the store.
StoredFolderIds == {f.id : f \in dbFolders}

\* C13: when moveClipsToFolder is answered with an error for a folder that
\* does not exist, the clips in memory and the clips of the store are as
\* they were and the caller is told that the clips failed.
C13_MoveToMissingFolderReportsFailure ==
  [][(/\ op'[1] = "responseUpdateClips"
      /\ op'[2] = "err"
      /\ op'[4] # NoId
      /\ op'[4] \notin StoredFolderIds) =>
       /\ clips' = clips
       /\ dbClips' = dbClips
       /\ returned' = "failed"]_vars

\* C14: when moveClipsToFolder to folder f is answered with success, every
\* clip moved is listed in memory under f and not as unorganized; and once
\* all calls are answered no clip in memory is filed in a folder that is
\* not in the folder list (a clip of a deleted folder is unorganized).
C14_MovedClipsShownInFolder ==
  /\ [][(/\ op'[1] = "responseUpdateClips"
          /\ op'[2] = "ok"
          /\ op'[4] # NoId) =>
           \A clip \in Range(clips') :
             clip.id \in op'[3] => clip.folder_id = op'[4]]_vars
  /\ [](inflight = {} =>
          \A clip \in Range(clips) :
            clip.folder_id = NoId \/
              \E folder \in Range(folders) : folder.id = clip.folder_id)

\* C15: the ids selected are ids of clips in memory, and when a deletion of
\* clips is answered with success none of its ids is still selected.
C15_SelectionWithinClips ==
  /\ [](DraftsShown => Range(selectedClips) \subseteq {c.id : c \in Range(clips)})
  /\ [][op'[1] = "responseDeleteClips" =>
          Range(selectedClips') \cap op'[2] = {}]_vars

\* C16: a deletion of clips is answered as a success only if the store
\* found and deleted every id it named; a second deletion of the same clip
\* is answered as failed.
C16_SecondDeleteReportedFailed ==
  [][op'[1] = "responseDeleteClips" => op'[3] = op'[2]]_vars

\* The calls that change a folder, and the calls that delete clips.
FolderMutations == {q \in inflight : q.kind \in {"updateFolder", "deleteFolder"}}

\* C19: a rename or a delete of a folder is sent only when no earlier rename
\* or delete of that folder is still in flight, and a deletion of clips is
\* sent only when no earlier deletion naming one of its clips is still in
\* flight.
C19_MutationsOfOneEntitySerialized ==
  [][\A q \in inflight' \ inflight :
       q.stage = "sent" =>
         /\ q.kind \in {"updateFolder", "deleteFolder"} =>
              \A prior \in FolderMutations : prior.id # q.id
         /\ q.kind = "deleteClips" =>
              \A prior \in DeletesInFlight : prior.ids \cap q.ids = {}]_vars

\* C18: a clip leaves the clips in memory only in the answer to a deletion
\* of clips that the store confirmed and that named the id of the clip.
C18_ClipDroppedOnlyWhenDeletionConfirmed ==
  [][\A clip \in Range(clips) :
       (\A kept \in Range(clips') : kept.id # clip.id) =>
         (op'[1] = "responseDeleteClips" /\ clip.id \in op'[2])]_vars

\* C20: a toggle of a clip id makes the set of ids selected its symmetric
\* difference with that id alone, and a second toggle of the same id right
\* after the first gives back the set the first started from.
C20_ToggleIsSymmetricDifference ==
  /\ [][op'[1] = "toggleSelect" =>
          Range(selectedClips') =
            (Range(selectedClips) \ {op'[2]}) \cup ({op'[2]} \ Range(selectedClips))]_vars
  /\ [][(op[1] = "toggleSelect" /\ op'[1] = "toggleSelect" /\ op'[2] = op[2]) =>
          Range(selectedClips') = Range(op[3])]_vars

\* Clip 1 was just unticked by the second of two toggles in a row, clip 2
\* staying ticked.
C20_Witness ==
  /\ op = <<"toggleSelect", 1, <<2, 1>>>>
  /\ selectedClips = <<2>>

\* The calls that change the store.
Mutations == {"insertClip", "deleteClips", "insertFolder", "updateFolder", "deleteFolder"}

\* C17: the answer to a failed clip insert, clip deletion, folder insert,
\* folder rename or folder delete leaves the clips and the folders in memory
\* as they are and sends no call; the clips and the folders in memory change
\* only in the answer to a call that the store confirmed.
C17_FailedCallChangesNothing ==
  /\ [][\A q \in inflight :
          (q.kind \in Mutations /\ q.stage = "err" /\ q \notin inflight') =>
            /\ clips' = clips
            /\ folders' = folders
            /\ inflight' = inflight \ {q}]_vars
  /\ [][(clips' # clips \/ folders' # folders) =>
          \E q \in inflight : q.stage = "ok" /\ q \notin inflight']_vars

\* A deletion of the clip selected was just answered with an error: the clip
\* is still in memory and in the store.
C17_Witness ==
  /\ op = <<"failed", "deleteClips">>
  /\ selectedClips = <<EarlierClip.id>>
  /\ EarlierClip \in Range(clips)
  /\ EarlierClip \in dbClips
  /\ inflight = {}

\* C21: the Clear button empties the selection and leaves the clips, the
\* folder list and the set of unfolded folders as they were.
C21_ClearSelectionFrame ==
  [][op'[1] = "clearSelection" =>
       (selectedClips' = <<>> /\ UNCHANGED <<clips, folders, expandedFolders>>)]_vars

\* The selection was just cleared with a folder listed and unfolded.
C21_Witness ==
  /\ op = <<"clearSelection">>
  /\ selectedClips = <<>>
  /\ folders # <<>>
  /\ expandedFolders # {}
  /\ clips # <<>>

\* C22: the selection and the set of unfolded folders live in the drafts
\* view alone.  Ticking, clearing and unfolding send no call and leave the
\* store as it is, and each time the drafts view is entered from another
\* view both are empty, whatever they held when it was left.
C22_SelectionAndExpansionEphemeral ==
  /\ [][op'[1] \in {"toggleSelect", "toggleExpand", "clearSelection"} =>
          UNCHANGED <<inflight, dbVars>>]_vars
  /\ [][op'[1] = "navDrafts" =>
          (selectedClips' = <<>> /\ expandedFolders' = {})]_vars

\* The drafts view was just entered again; when it was left a clip was
\* ticked and a folder unfolded.
C22_Witness ==
  /\ Len(op) = 3
  /\ op[1] = "navDrafts"
  /\ op[2] # <<>>
  /\ op[3] # {}
  /\ selectedClips = <<>>
  /\ expandedFolders = {}

\* C23: the folder list in memory is always newest first by created_at,
\* folders of one created_at in the order of their ids.
C23_FoldersInCanonicalOrder ==
  \A i, j \in DOMAIN folders :
    i < j =>
      \/ folders[i].created_at > folders[j].created_at
      \/ /\ folders[i].created_at = folders[j].created_at
         /\ folders[i].id < folders[j].id

\* C24: the Enable Subtitles checkbox changes the flag alone.  The font and
\* the design stay as configured when it is toggled and for as long as it
\* is off, so that setting it again finds them as they were, and the insert
\* of a clip carries the flag and the font and design configured at that
\* time, also when the flag is off; the store keeps them as sent.
C24_SubtitleToggleKeepsSettings ==
  /\ [][op'[1] = "setSubtitleEnabled" =>
          UNCHANGED <<subtitleFont, subtitleDesign>>]_vars
  /\ [][(EditorShown /\ EditorShown' /\ ~subtitleEnabled) =>
          UNCHANGED <<subtitleFont, subtitleDesign>>]_vars
  /\ [][\A q \in inflight' \ inflight :
          (q.kind = "insertClip" /\ q.stage = "sent") =>
            /\ q.row.subtitle_enabled = subtitleEnabled
            /\ q.row.subtitle_settings.font = subtitleFont
            /\ q.row.subtitle_settings.design = subtitleDesign]_vars
  /\ [][\A c \in dbClips' \ dbClips :
          \E q \in inflight :
            /\ q.kind = "insertClip"
            /\ c.subtitle_enabled = q.row.subtitle_enabled
            /\ c.subtitle_settings = q.row.subtitle_settings]_vars

\* A clip was stored with subtitles off and the font and design chosen
\* before they were turned off; the editor still holds both.
C24_Witness ==
  /\ ~subtitleEnabled
  /\ subtitleFont = "Georgia"
  /\ subtitleDesign = "bold"
  /\ \E c \in dbClips :
       /\ ~c.subtitle_enabled
       /\ c.subtitle_settings = [font |-> "Georgia", design |-> "bold"]

\* The step moves clip c (d after it) as a call in flight asks the store to:
\* the update of a moveClipsToFolder naming the clip, to the folder the call
\* names, or the deletion of the folder the clip is in, to none.
MovedByStore(c, d) ==
  \/ \E q \in Pending("updateClips") :
       /\ c.id \in q.ids
       /\ d.folder_id = q.folder_id
       /\ \E a \in inflight' : a.rid = q.rid /\ a.stage = "ok"
  \/ \E q \in Pending("deleteFolder") :
       /\ q.id = c.folder_id
       /\ d.folder_id = NoId
       /\ \A f \in dbFolders' : f.id # q.id

\* C25: a clip enters the store, and the list in memory, with no folder.
\* The folder of a clip changes only in the step in which the store runs
\* the update of a moveClipsToFolder that names the clip, to the folder
\* that call names, or runs the deletion of the folder the clip is in, to
\* none.  A clip moved from one folder to another is thus in the second in
\* the very step it leaves the first.
C25_FolderOfClipFollowsTransitions ==
  /\ [][\A d \in dbClips' :
          (\A c \in dbClips : c.id # d.id) => d.folder_id = NoId]_vars
  /\ [][\A d \in Range(clips') :
          (\A c \in Range(clips) : c.id # d.id) => d.folder_id = NoId]_vars
  /\ [][\A c \in dbClips, d \in dbClips' :
          (c.id = d.id /\ c.folder_id # d.folder_id) => MovedByStore(c, d)]_vars
  /\ [][\A c \in Range(clips), d \in Range(clips') :
          (c.id = d.id /\ c.folder_id # d.folder_id) => MovedByStore(c, d)]_vars

\* The store has just moved the clip created in this session from the
\* first folder straight into the second.
C25_Witness ==
  /\ op = <<"gatewayUpdateClips", {1}, {MaxFolders + 1}>>
  /\ \E c \in dbClips : c.id = 1 /\ c.folder_id = MaxFolders + 2

\* C26: an insert of a clip is sent only while a video is selected and
\* names that video as the parent; the store and the list in memory take
\* the parent from the insert, and no step changes the video_id of a clip
\* that is stored or listed.
C26_ClipKeepsParentVideo ==
  /\ [][\A q \in inflight' \ inflight :
          (q.kind = "insertClip" /\ q.stage = "sent") =>
            /\ selectedVideo.id # NoId
            /\ q.row.video_id = selectedVideo.id]_vars
  /\ [][\A d \in dbClips' :
          (\A c \in dbClips : c.id # d.id) =>
            \E q \in Pending("insertClip") : d.video_id = q.row.video_id]_vars
  /\ [][\A d \in Range(clips') :
          (\A c \in Range(clips) : c.id # d.id) =>
            \E q \in Answered("insertClip") : d.video_id = q.row.video_id]_vars
  /\ [][\A c \in dbClips, d \in dbClips' :
          c.id = d.id => c.video_id = d.video_id]_vars
  /\ [][\A c \in Range(clips), d \in Range(clips') :
          c.id = d.id => c.video_id = d.video_id]_vars

\* The clip created from the second video has since been filed in a folder,
\* the other clip deleted, and a folder deleted: it is still a clip of the
\* second video, in the store and in memory.
C26_Witness ==
  /\ currentView = "drafts"
  /\ \E c \in dbClips :
       c.id = 1 /\ c.video_id = SecondVideo.id /\ c.folder_id # NoId
  /\ \E c \in Range(clips) : c.id = 1 /\ c.video_id = SecondVideo.id
  /\ EarlierClip \notin dbClips
  /\ Cardinality(dbFolders) = 1

\* What a string of decimal digits denotes, and whether it is one.
IsDigits(str) == \A i \in DOMAIN str : \E d \in 1..10 : DigitChars[d] = str[i]

RECURSIVE ValueOf(_)
ValueOf(str) ==
  IF str = <<>> THEN 0
  ELSE ValueOf(SubSeq(str, 1, Len(str) - 1)) * 10 +
       (CHOOSE d \in 0..9 : DigitChars[d + 1] = str[Len(str)])

\* C27: for whole seconds >= 0 the text is the minutes (seconds div 60) in
\* decimal without leading zeros, a colon, and the seconds left (seconds
\* mod 60) in exactly two digits; 125 gives "2:05", 59 "0:59", 0 "0:00".
C27_FormatIsMinutesColonTwoDigits ==
  rangeOut.op \in {"formatTime", "formatDuration"} =>
    LET text == rangeOut.text
        n == Len(text)
        mm == SubSeq(text, 1, n - 3)
        ss == SubSeq(text, n - 1, n)
    IN  /\ n >= 4
        /\ text[n - 2] = ":"
        /\ IsDigits(mm) /\ IsDigits(ss)
        /\ ValueOf(mm) = rangeOut.seconds \div 60
        /\ (Len(mm) > 1 => mm[1] # "0")
        /\ ValueOf(ss) = rangeOut.seconds % 60
        /\ (rangeOut.seconds = 125 => text = <<"2", ":", "0", "5">>)
        /\ (rangeOut.seconds = 59 => text = <<"0", ":", "5", "9">>)
        /\ (rangeOut.seconds = 0 => text = <<"0", ":", "0", "0">>)

\* 125 seconds were formatted as "2:05".
C27_Witness ==
  /\ rangeOut.op = "formatTime"
  /\ rangeOut.seconds = 125
  /\ rangeOut.text = <<"2", ":", "0", "5">>

\* C28: an update of an id that is in the collection gives each overlay of
\* that id the fields passed and leaves its other fields as they were; the
\* overlays of other ids and the length of the collection are unchanged.
C28_UpdateChangesOnlyGivenFields ==
  [][(op'[1] = "updateOverlay" /\ op'[3]) =>
       /\ Len(textOverlays') = Len(textOverlays)
       /\ \A i \in DOMAIN textOverlays :
            IF textOverlays[i].id = op'[2]
            THEN /\ DOMAIN textOverlays'[i] = DOMAIN textOverlays[i]
                 /\ \A f \in DOMAIN op'[4] : textOverlays'[i][f] = op'[4][f]
                 /\ \A f \in DOMAIN textOverlays[i] \ DOMAIN op'[4] :
                      textOverlays'[i][f] = textOverlays[i][f]
            ELSE textOverlays'[i] = textOverlays[i]]_vars

\* The text of the second of two overlays was just set; the first, of
\* another id, is as it was added.
C28_Witness ==
  /\ op = <<"updateOverlay", 1, TRUE, [text |-> "Hi"]>>
  /\ Len(textOverlays) = 2
  /\ textOverlays[1] = NewOverlay(0)
  /\ textOverlays[2] = [NewOverlay(1) EXCEPT !.text = "Hi"]

\* C29: whenever no call is in flight, the clips in memory are the clips
\* stored.
C29_ClipsInMemoryAreClipsStored ==
  inflight = {} => {c.id : c \in Range(clips)} = {c.id : c \in dbClips}

\* C30: whenever no call is in flight, the folders in memory are the
\* folders stored.
C30_FoldersInMemoryAreFoldersStored ==
  inflight = {} => Range(folders) = dbFolders

\* C31: a create that passes the two checks of the editor resets the draft
\* in the very step that sends the insert (title empty, start 0, end
\* min(30, duration), no overlays) and leaves the aspect ratio, the
\* subtitle flag, the font and the design as they were; the answer of the
\* insert, a failure too, leaves the whole draft as it finds it.
C31_DraftResetAtOnce ==
  /\ [][(op' = <<"createClip">> /\ ~IsBlank(clipTitle) /\ startTime < endTime) =>
          /\ clipTitle' = <<>>
          /\ startTime' = 0
          /\ endTime' = Min(30, selectedVideo.duration)
          /\ textOverlays' = <<>>
          /\ UNCHANGED <<aspectRatio, subtitleEnabled, subtitleFont, subtitleDesign>>
          /\ \E q \in inflight' \ inflight : q.kind = "insertClip" /\ q.stage = "sent"]_vars
  /\ [][(\E q \in inflight \ inflight' : q.kind = "insertClip" /\ q.stage # "sent") =>
          UNCHANGED <<clipTitle, startTime, endTime, textOverlays, aspectRatio,
                      subtitleEnabled, subtitleFont, subtitleDesign>>]_vars

\* The insert of a clip has just failed: the draft is the reset one, with
\* the aspect ratio, flag, font and design chosen before the create.
C31_Witness ==
  /\ op = <<"failed", "insertClip">>
  /\ clipTitle = <<>>
  /\ startTime = 0
  /\ endTime = 30
  /\ textOverlays = <<>>
  /\ clips = <<>>
  /\ aspectRatio = "9:16"
  /\ ~subtitleEnabled
  /\ subtitleFont = "Georgia"
  /\ subtitleDesign = "bold"
  /\ dbClips = {}

\* C32: whatever ticks, unticks and clearings were made, no clip id stands
\* twice in the list of selected clips.
C32_SelectionHasNoDuplicates ==
  \A i, j \in DOMAIN selectedClips :
    selectedClips[i] = selectedClips[j] => i = j

\* Clip 1 was ticked while clip 2 was already ticked: two ids are selected.
C32_Witness ==
  /\ op = <<"toggleSelect", 1, <<2>>>>
  /\ selectedClips = <<2, 1>>

(***************************************************************************)
(* The clips of the drafts view opened in the editor.                      *)
(***************************************************************************)
\* A video stored after the select of loadVideos ran and before the select
\* of loadClips ran, with a clip cut from it: the clip is in memory, its
\* video is not.
OtherVideo == [id |-> MaxVideos + 1, duration |-> 10]
FirstCut == [EarlierClip EXCEPT !.start_time = 5]
SecondCut == [EarlierClip EXCEPT !.id = MaxClips + 2, !.start_time = 9]
OrphanCut ==
  [EarlierClip EXCEPT !.id = MaxClips + 3, !.video_id = OtherVideo.id, !.start_time = 7]
LibraryClips == {FirstCut, SecondCut, OrphanCut}

\* The app just mounted, loadVideos and loadClips answered.
InitLibrary ==
  /\ currentView = "upload"
  /\ videos = <<FirstVideo>>
  /\ clips = NewestFirstById(LibraryClips)
  /\ selectedVideo = NoVideo
  /\ currentTime = 0
  /\ showPlayer = FALSE
  /\ clipTitle = <<>>
  /\ startTime = 0
  /\ endTime = 0
  /\ textOverlays = <<>>
  /\ aspectRatio = DefaultAspectRatio
  /\ subtitleEnabled = TRUE
  /\ subtitleFont = DefaultFont
  /\ subtitleDesign = DefaultDesign
  /\ folders = <<>>
  /\ newFolderName = <<>>
  /\ isCreatingFolder = FALSE
  /\ editingFolderId = NoId
  /\ editingFolderName = <<>>
  /\ selectedClips = <<>>
  /\ expandedFolders = {}
  /\ dbVideos = {FirstVideo, OtherVideo}
  /\ dbClips = LibraryClips
  /\ dbFolders = {}
  /\ videoSeq = 1
  /\ clipSeq = 0
  /\ folderSeq = 0
  /\ inflight = {}
  /\ now = 0
  /\ rangeIn = [start |-> 0, end |-> 0, duration |-> 0, input |-> NaN]
  /\ rangeOut = [op |-> "none"]
  /\ op = <<"init">>
  /\ returned = "none"
  /\ removedIds = {}
  /\ isProcessing = FALSE
  /\ probes = {}

\* The ids handleClipSelect is called with: the clips in memory and an id
\* no clip in memory carries.
ClipIdsAsked == {c.id : c \in LibraryClips} \cup {MaxClips + 4}

NextLibrary ==
  \/ NavUpload
  \/ NavEditor
  \/ NavDrafts
  \/ \E clipId \in ClipIdsAsked : handleClipSelect(clipId)
  \/ \E video \in Range(videos) : handleSelectVideo(video)
  \/ handleVideoAdded(20)
  \/ ClosePlayer
  \/ OpenPlayer
  \/ \E q \in inflight : GatewayInsertVideo(q)
  \/ \E q \in inflight : GatewaySelectFolders(q)
  \/ \E q \in inflight : GatewayFail(q)
  \/ \E q \in inflight : ResponseInsertVideo(q)
  \/ \E q \in inflight : ResponseSelectFolders(q)

SpecLibrary == InitLibrary /\ [][NextLibrary]_vars

\* C33: whenever the view is the editor a video is selected; the view
\* becomes the editor only by the answer to an added video, by the choice of
\* a video, by the Editor button or by the choice of a clip, and each time
\* with a video selected; a video once selected is never replaced by none.
C33_EditorHasVideo ==
  /\ [](currentView = "editor" => selectedVideo.id # NoId)
  /\ [][(currentView # "editor" /\ currentView' = "editor") =>
          /\ selectedVideo'.id # NoId
          /\ op'[1] \in {"response", "selectVideo", "navEditor", "clipSelect"}]_vars
  /\ [][selectedVideo.id # NoId => selectedVideo'.id # NoId]_vars

\* The Editor button brought back the editor of the video selected before.
C33_Witness ==
  /\ op = <<"navEditor">>
  /\ currentView = "editor"
  /\ selectedVideo = FirstVideo

\* C34: a click on a clip whose id no clip in memory carries, or whose
\* video is not among the videos in memory, leaves the view, the video
\* selected, the current time and the player flag as they were; a click on
\* any other clip selects the clip's video among the videos in memory, sets
\* the current time to the clip's start_time, shows the editor and the
\* player.
C34_ClipSelectChecksClipAndVideo ==
  [][op'[1] = "clipSelect" =>
      IF \E c \in Range(clips) :
           c.id = op'[2] /\ \E v \in Range(videos) : v.id = c.video_id
      THEN \E c \in Range(clips) :
             /\ c.id = op'[2]
             /\ selectedVideo' \in Range(videos)
             /\ selectedVideo'.id = c.video_id
             /\ currentTime' = c.start_time
             /\ currentView' = "editor"
             /\ showPlayer'
      ELSE UNCHANGED <<currentView, selectedVideo, currentTime, showPlayer>>]_vars

\* The clip whose video is not in memory was clicked after an earlier click
\* had opened the first clip: the video and the time of the first clip stay.
C34_Witness ==
  /\ op = <<"clipSelect", OrphanCut.id>>
  /\ currentView = "drafts"
  /\ selectedVideo = FirstVideo
  /\ currentTime = FirstCut.start_time

(***************************************************************************)
(* Files chosen in the upload view.  The browser settles every <video>     *)
(* element one way or the other and the gateway answers every call; the    *)
(* user is free to do nothing.                                             *)
(***************************************************************************)
NextUpload ==
  \/ \E file \in Files : handleFileUpload(file)
  \/ \E p \in probes : LoadedMetadata(p)
  \/ \E p \in probes : MediaError(p)
  \/ \E video \in Range(videos) : handleSelectVideo(video)
  \/ NavUpload
  \/ NavEditor
  \/ NavDrafts
  \/ \E q \in inflight : GatewayInsertVideo(q)
  \/ \E q \in inflight : GatewaySelectFolders(q)
  \/ \E q \in inflight : GatewayFail(q)
  \/ \E q \in inflight : ResponseInsertVideo(q)
  \/ \E q \in inflight : ResponseSelectFolders(q)

BrowserStep == \E p \in probes : LoadedMetadata(p) \/ MediaError(p)
GatewayStep ==
  \E q \in inflight : GatewayInsertVideo(q) \/ GatewaySelectFolders(q) \/ GatewayFail(q)
ResponseStep == \E q \in inflight : ResponseInsertVideo(q) \/ ResponseSelectFolders(q)

SpecUpload ==
  /\ Init
  /\ [][NextUpload]_vars
  /\ WF_vars(BrowserStep)
  /\ WF_vars(GatewayStep)
  /\ WF_vars(ResponseStep)

\* C35: whenever the processing flag is set it is cleared later on, the
\* file input being enabled again.
C35_ProcessingEventuallyCleared == isProcessing ~> ~isProcessing

=========================================================================
